---- MODULE Spec2Model ----
(***************************************************************************)
(* State-machine model of the NGS ShapeFiles ingestion scripts             *)
(* (kpwish/Benchmarks, Downloads/*.py):                                    *)
(*   - the validated fetch with mirror / filename fallback                 *)
(*     (ngs_sf_archives_direct_downloader_with_dbf_extract_v1_5.py),       *)
(*   - the content checks of the geodesy downloader (.._v1_7.py),          *)
(*   - the DBF decoder of the curl pipeline (.._v2_2.py, .._v2_4.py).      *)
(* Bytes are integers 0..255, byte strings are sequences of bytes, a file  *)
(* is a byte string or NoFile.                                             *)
(***************************************************************************)
EXTENDS Integers, Sequences, FiniteSets, TLC

VARIABLES
    \* ---- fetch driver (v1_5 main / _try_download / _download_zip_validated)
    run,          \* number of the current run of main()
    ci,           \* index into STATE_CODES of the code main() is processing
    pc,           \* position of the driver
    bi, ni,       \* loop indices of _try_download: base URL, filename variant
    zipf,         \* zipf[c]: file at OUT_DIR/<code>.ZIP
    partf,        \* partf[c]: file at OUT_DIR/<code>.ZIP.part
    dbfs,         \* files in DBF_DIR: set of <<code, basename>>
    resp,         \* the response being served to the open request
    got,          \* chunks of resp consumed by the iter_content loop
    first_chunk,  \* local first_chunk of _download_zip_validated
    exc,          \* exception in flight inside _try_download
    last_error,   \* local last_error of _try_download
    calls,        \* per code, this run: requests made and result of _try_download
    origin,       \* origin[c]: full body of the response whose bytes were put at zipf[c]
    \* ---- content classification (v1_5 checks, v1_7 _download_zip_validated)
    cpc, buf, status, ctypeA, ctypeB, cls, outA, outB,
    \* ---- DBF decoder (v2_2 / v2_4 dbf_to_csv)
    dpc, variant, tbl, dbf, fpos, hdr, reci, csv, derr,
    \* ---- field decoding (v2_2 _parse_dbf_value): arguments and result of a call
    vpc, vraw, vtype, vdec, vout,
    \* ---- member extraction (v2_2 / v2_4 _extract_dbf)
    xpc, xvariant, xzip, xout, xpre, xmember, xret, xerr, xrun, xdirty,
    \* ---- projection (v2_2 / v2_4 clean_and_filter_csv)
    ppc, pvariant, psrc, pout, out_headers, missing, pri, rows, data_date, perr,
    \* ---- value cleaning (v2_2 _clean_value, v2_4 inline): argument and results
    kpc, kvariant, kvalue, kout, kagain,
    \* ---- header parsing on its own (v2_2 _parse_dbf_header_and_fields): file, result, first record
    hpc, hfile, hres, hrec,
    \* ---- archive form downloader v1_2: discovery probes, then calls of download_region
    apc, api, aspec, aprobe, aregion, afiles, aresp, aout, areqs, aret,
    \* ---- FTP driver: main and _download_one of the FTP downloader
    tpc, tci, tattempt, tftp, tzip, tpart, tlast, tlog, textr,
    \* ---- v2_2 pipeline for one code: dbf_to_csv, then clean_and_filter_csv, over several runs
    qpc, qrun, qrows, qint

fetchVars == <<run, ci, pc, bi, ni, zipf, partf, dbfs, resp, got, first_chunk,
               exc, last_error, calls, origin>>
classVars == <<cpc, buf, status, ctypeA, ctypeB, cls, outA, outB>>
dbfVars   == <<dpc, variant, tbl, dbf, fpos, hdr, reci, csv, derr>>
valVars   == <<vpc, vraw, vtype, vdec, vout>>
extVars   == <<xpc, xvariant, xzip, xout, xpre, xmember, xret, xerr, xrun, xdirty>>
projVars  == <<ppc, pvariant, psrc, pout, out_headers, missing, pri, rows, data_date, perr>>
cleanVars == <<kpc, kvariant, kvalue, kout, kagain>>
hdrVars   == <<hpc, hfile, hres, hrec>>
arcVars   == <<apc, api, aspec, aprobe, aregion, afiles, aresp, aout, areqs, aret>>
ftpVars   == <<tpc, tci, tattempt, tftp, tzip, tpart, tlast, tlog, textr>>
pipeVars  == <<qpc, qrun, qrows, qint>>
vars      == <<fetchVars, classVars, dbfVars, valVars, extVars, projVars, cleanVars, hdrVars, arcVars, ftpVars, pipeVars>>
\* the variables of the other parts, which a step of one part leaves alone
notFetch  == <<classVars, dbfVars, valVars, extVars, projVars, cleanVars, hdrVars, arcVars, ftpVars, pipeVars>>
notClass  == <<fetchVars, dbfVars, valVars, extVars, projVars, cleanVars, hdrVars, arcVars, ftpVars, pipeVars>>
notDbf    == <<fetchVars, classVars, valVars, extVars, projVars, cleanVars, hdrVars, arcVars, ftpVars, pipeVars>>
notVal    == <<fetchVars, classVars, dbfVars, extVars, projVars, cleanVars, hdrVars, arcVars, ftpVars, pipeVars>>
notExt    == <<fetchVars, classVars, dbfVars, valVars, projVars, cleanVars, hdrVars, arcVars, ftpVars, pipeVars>>
notProj   == <<fetchVars, classVars, dbfVars, valVars, extVars, cleanVars, hdrVars, arcVars, ftpVars, pipeVars>>
notClean  == <<fetchVars, classVars, dbfVars, valVars, extVars, projVars, hdrVars, arcVars, ftpVars, pipeVars>>
notHdr    == <<fetchVars, classVars, dbfVars, valVars, extVars, projVars, cleanVars, arcVars, ftpVars, pipeVars>>
notArc    == <<fetchVars, classVars, dbfVars, valVars, extVars, projVars, cleanVars, hdrVars, ftpVars, pipeVars>>
notFtp    == <<fetchVars, classVars, dbfVars, valVars, extVars, projVars, cleanVars, hdrVars, arcVars, pipeVars>>
notPipe   == <<fetchVars, classVars, dbfVars, valVars, extVars, projVars, cleanVars, hdrVars, arcVars, ftpVars>>

-----------------------------------------------------------------------------
(* Byte strings *)

\* a path of the file system: absent, or a file with its bytes
NoFile  == [exists |-> FALSE, data |-> <<>>]
File(d) == [exists |-> TRUE, data |-> d]
\* os.path.exists(p) and os.path.getsize(p) > 0
ExistsNonEmpty(f) == f.exists /\ Len(f.data) > 0

Min(a, b) == IF a < b THEN a ELSE b
Max(a, b) == IF a > b THEN a ELSE b

\* b[:n]
Take(b, n) == SubSeq(b, 1, Min(n, Len(b)))
\* b[n:]
Drop(b, n) == SubSeq(b, Min(n, Len(b)) + 1, Len(b))
\* b[i:j] with 0-based, end-exclusive Python slice bounds, clipped to the string
Slice(b, i, j) == SubSeq(b, Min(i, Len(b)) + 1, Min(j, Len(b)))

\* bytes.startswith
StartsWith(b, p) == Len(b) >= Len(p) /\ SubSeq(b, 1, Len(p)) = p
\* bytes.endswith
EndsWith(b, p) == Len(b) >= Len(p) /\ SubSeq(b, Len(b) - Len(p) + 1, Len(b)) = p
\* p in b
Contains(b, p) == \E i \in 1..(Len(b) - Len(p) + 1) : SubSeq(b, i, i + Len(p) - 1) = p

\* bytes.lower(): ASCII letters only
LowerByte(x) == IF x \in 65..90 THEN x + 32 ELSE x
Lower(b) == [i \in 1..Len(b) |-> LowerByte(b[i])]
\* a decoder that compares the first character as it stands
UpperByte_AsIs(x) == x
\* s[:1].upper(), as far as the comparison with "Y", "T", "N", "F" can tell: no
\* character outside a-z has one of these as its upper case
UpperByte(x) == IF x \in 97..122 THEN x - 32 ELSE x

\* the bytes that bytes.strip() / lstrip() / rstrip() remove: \t \n \v \f \r space
Whitespace == {9, 10, 11, 12, 13, 32}

RECURSIVE LStrip(_)
LStrip(b) == IF b # <<>> /\ b[1] \in Whitespace THEN LStrip(Tail(b)) ELSE b

RECURSIVE RStrip(_)
RStrip(b) == IF b # <<>> /\ b[Len(b)] \in Whitespace
             THEN RStrip(SubSeq(b, 1, Len(b) - 1)) ELSE b

Strip(b) == RStrip(LStrip(b))

RECURSIVE Flatten(_)
Flatten(chunks) == IF chunks = <<>> THEN <<>> ELSE Head(chunks) \o Flatten(Tail(chunks))

Rep(x, n) == [i \in 1..n |-> x]

-----------------------------------------------------------------------------
(* Content checks *)

ZIP_MAGIC   == <<80, 75>>                                  \* b"PK"
TAG_HTML    == <<60, 104, 116, 109, 108>>                  \* b"<html"
TAG_DOCTYPE == <<60, 33, 100, 111, 99, 116, 121, 112, 101>> \* b"<!doctype"
TAG_XML     == <<60, 63, 120, 109, 108>>                   \* b"<?xml"

\* _is_zip_magic(b)
_is_zip_magic_first_byte_only(b) == StartsWith(b, <<80>>)
_is_zip_magic(b) == StartsWith(b, ZIP_MAGIC)

\* head[:300] of v1_5, head[:400] of v1_7
HtmlWindow15 == 300
HtmlWindow17 == 400

\* _looks_like_html(b), with the length of the searched prefix as a parameter
_looks_like_html_no_lt(b, window) ==
    LET head == Lower(LStrip(b)) IN
    \/ Contains(Take(head, window), TAG_HTML)
    \/ Contains(Take(head, window), TAG_DOCTYPE)
    \/ Contains(Take(head, window), TAG_XML)
_looks_like_html(b, window) ==
    LET head == Lower(LStrip(b)) IN
    /\ StartsWith(head, <<60>>)
    /\ \/ Contains(Take(head, window), TAG_HTML)
       \/ Contains(Take(head, window), TAG_DOCTYPE)
       \/ Contains(Take(head, window), TAG_XML)

\* zipfile.is_zipfile(path): the file ends with an end-of-central-directory
\* record, 22 bytes starting PK\x05\x06 whose comment length (last 2 bytes) is 0
EOCD == <<80, 75, 5, 6>> \o Rep(0, 18)
IsZipfile(b) ==
    /\ Len(b) >= Len(EOCD)
    /\ SubSeq(b, Len(b) - 21, Len(b) - 18) = <<80, 75, 5, 6>>
    /\ SubSeq(b, Len(b) - 1, Len(b)) = <<0, 0>>

-----------------------------------------------------------------------------
(* Fetch driver of v1_5: main, _try_download, _download_zip_validated *)

\* bounds of the model
NumCodes == 2      \* codes of STATE_CODES that main() iterates over
MaxRuns  == 2      \* runs of main() over the same output directory

STATE_CODES == <<"AL", "AK", "AZ", "AR", "CA", "CO">>
CodeIdx == 1..NumCodes

BASE_DIR_URLS == << "https://www.ngs.noaa.gov/pub/DS_ARCHIVE/ShapeFiles/",
                    "https://geodesy.noaa.gov/pub/DS_ARCHIVE/ShapeFiles/",
                    "https://nweb.ngs.noaa.gov/pub/DS_ARCHIVE/ShapeFiles/" >>
\* server_names = [f"{code}.ZIP", f"{code}.zip"]
ServerNameExt == << ".ZIP", ".zip" >>
NumBases == Len(BASE_DIR_URLS)
NumNames == Len(ServerNameExt)

\* first_chunk = chunk[:1024]
FirstChunkLen15 == 1024

\* Bodies a server may send, as the chunks resp.iter_content yields.
ZipHead   == <<80, 75, 3, 4, 1>>
ZipFileA  == ZipHead \o EOCD                       \* a well-formed archive
HtmlPage  == TAG_HTML \o <<62>>                    \* b"<html>"
Bodies == { <<>>,                                  \* no body
            << <<>>, ZipHead, EOCD >>,             \* ZipFileA, an empty chunk first
            << <<80, 75, 9, 9>> >>,                \* PK magic, not an archive
            << HtmlPage, <<10>> >>,                \* an error page sent with status 200
            << <<120, 121>> >>,                    \* neither
            << <<80>>, <<75, 3, 4, 1>> \o EOCD >>  \* ZipFileA, first chunk of one byte
          }

\* What session.get(url) and the stream can do: the connection fails, the server
\* answers with a status, the stream breaks after failAt chunks (-1: never).
Responses ==
    {[conn |-> TRUE, status |-> 0, chunks |-> <<>>, failAt |-> -1]}
    \cup {[conn |-> FALSE, status |-> 404, chunks |-> << HtmlPage >>, failAt |-> -1]}
    \cup UNION {{[conn |-> FALSE, status |-> 200, chunks |-> b, failAt |-> k]
                  : k \in -1..Len(b)} : b \in Bodies}

NoResp == [conn |-> FALSE, status |-> 0, chunks |-> <<>>, failAt |-> -1]
NoExc  == [kind |-> "none", url |-> <<0, 0>>]
NoChunk == [set |-> FALSE, data |-> <<>>]
NoCall == [reqs |-> <<>>, oks |-> <<>>, fail |-> NoExc, res |-> "none",
           ret |-> <<0, 0>>, err |-> [code |-> "", last |-> NoExc]]

\* Archive listing of a file that zipfile.ZipFile can open (z.namelist()).
NameShp    == <<65, 76, 46, 115, 104, 112>>                 \* "AL.shp"
NameDbfUp  == <<115, 47, 65, 108, 46, 68, 66, 70>>          \* "s/Al.DBF"
NameDbfLow == <<65, 76, 46, 100, 98, 102>>                  \* "AL.dbf"
ZipEntries(b) == IF b = ZipFileA THEN <<NameShp, NameDbfUp, NameDbfLow>> ELSE <<>>

DOT_DBF == <<46, 100, 98, 102>>                             \* ".dbf"
RECURSIVE Basename(_)
\* os.path.basename(member)
Basename(n) == IF \E i \in 1..Len(n) : n[i] = 47
               THEN Basename(Tail(n)) ELSE n

\* _extract_dbfs(zip_path, DBF_DIR, prefix=code): the files in DBF_DIR afterwards
\* (a file that is not an archive raises BadZipFile, which main() prints).
_extract_dbfs(zf, code, have) ==
    IF ~IsZipfile(zf.data) THEN have
    ELSE have \cup { <<code, Basename(ZipEntries(zf.data)[i])>> :
                       i \in { j \in 1..Len(ZipEntries(zf.data)) :
                                 EndsWith(Lower(ZipEntries(zf.data)[j]), DOT_DBF) } }

FetchInit ==
    /\ run = 1 /\ ci = 1 /\ pc = "main_check" /\ bi = 1 /\ ni = 1
    /\ zipf = [c \in CodeIdx |-> NoFile]
    /\ partf = [c \in CodeIdx |-> NoFile]
    /\ origin = [c \in CodeIdx |-> <<>>]
    /\ dbfs = {}
    /\ resp = NoResp /\ got = 0 /\ first_chunk = NoChunk
    /\ exc = NoExc /\ last_error = NoExc
    /\ calls = [c \in CodeIdx |-> NoCall]

\* main(), lines 220-229: download only when no non-empty ZIP is there
MainCheck_AlwaysDownloads ==
    /\ pc = "main_check"
    /\ bi' = 1 /\ ni' = 1 /\ last_error' = NoExc /\ pc' = "request"
    /\ UNCHANGED <<run, ci, zipf, partf, dbfs, resp, got, first_chunk, exc, origin, calls>>
MainCheck ==
    /\ pc = "main_check"
    /\ IF ExistsNonEmpty(zipf[ci])
       THEN /\ pc' = "extract"
            /\ calls' = [calls EXCEPT ![ci].res = "skipped"]
            /\ UNCHANGED <<bi, ni, last_error>>
       ELSE /\ bi' = 1 /\ ni' = 1 /\ last_error' = NoExc
            /\ pc' = "request"
            /\ UNCHANGED calls
    /\ UNCHANGED <<run, ci, zipf, partf, dbfs, resp, got, first_chunk, exc, origin>>

\* _try_download line 190-192 and _download_zip_validated lines 146-156:
\* session.get(url), the status check, open(tmp_path, "wb")
Request ==
    /\ pc = "request"
    /\ \E r \in Responses :
         /\ resp' = r
         /\ calls' = [calls EXCEPT ![ci].reqs = Append(@, <<bi, ni>>)]
         /\ IF r.conn
            THEN /\ exc' = [kind |-> "conn", url |-> <<0, 0>>]
                 /\ pc' = "except"
                 /\ UNCHANGED <<partf, first_chunk, got>>
            ELSE IF r.status >= 400
            THEN /\ exc' = [kind |-> "http", url |-> <<bi, ni>>]
                 /\ pc' = "except"
                 /\ UNCHANGED <<partf, first_chunk, got>>
            ELSE /\ partf' = [partf EXCEPT ![ci] = File(<<>>)]
                 /\ first_chunk' = NoChunk
                 /\ got' = 0
                 /\ pc' = "stream"
                 /\ UNCHANGED exc
    /\ UNCHANGED <<run, ci, bi, ni, zipf, dbfs, last_error, origin>>

\* one turn of "for chunk in resp.iter_content(...)", lines 159-165
StreamChunk_WritesDest ==
    /\ pc = "stream"
    /\ IF resp.failAt = got
       THEN /\ exc' = [kind |-> "stream", url |-> <<0, 0>>]
            /\ pc' = "except"
            /\ UNCHANGED <<got, first_chunk, zipf, origin>>
       ELSE IF got = Len(resp.chunks)
       THEN /\ pc' = "validate"
            /\ UNCHANGED <<got, first_chunk, zipf, exc, origin>>
       ELSE LET chunk == resp.chunks[got + 1] IN
            /\ got' = got + 1
            /\ first_chunk' = IF chunk # <<>> /\ ~first_chunk.set
                              THEN [set |-> TRUE, data |-> Take(chunk, FirstChunkLen15)]
                              ELSE first_chunk
            /\ zipf' = [zipf EXCEPT ![ci] = File(@.data \o chunk)]
            /\ origin' = [origin EXCEPT ![ci] = Flatten(resp.chunks)]
            /\ UNCHANGED <<pc, exc>>
    /\ UNCHANGED <<run, ci, bi, ni, partf, dbfs, resp, last_error, calls>>
StreamChunk ==
    /\ pc = "stream"
    /\ IF resp.failAt = got
       THEN /\ exc' = [kind |-> "stream", url |-> <<0, 0>>]
            /\ pc' = "except"
            /\ UNCHANGED <<got, first_chunk, partf>>
       ELSE IF got = Len(resp.chunks)
       THEN /\ pc' = "validate"
            /\ UNCHANGED <<got, first_chunk, partf, exc>>
       ELSE LET chunk == resp.chunks[got + 1] IN
            /\ got' = got + 1
            /\ first_chunk' = IF chunk # <<>> /\ ~first_chunk.set
                              THEN [set |-> TRUE, data |-> Take(chunk, FirstChunkLen15)]
                              ELSE first_chunk
            /\ partf' = [partf EXCEPT ![ci] = File(@.data \o chunk)]
            /\ UNCHANGED <<pc, exc>>
    /\ UNCHANGED <<run, ci, bi, ni, zipf, dbfs, resp, last_error, calls, origin>>

\* the checks of _download_zip_validated, lines 167-178, on first_chunk:
\* the error raised ("empty", "html", "nonzip"), or "ok" when line 180 is reached
ValidateFirstChunk15(fc) ==
    IF ~fc.set THEN "empty"
    ELSE IF ~_is_zip_magic(fc.data)
    THEN (IF _looks_like_html(fc.data, HtmlWindow15) THEN "html" ELSE "nonzip")
    ELSE "ok"

\* _download_zip_validated lines 167-180 and the return of _try_download, line 193
Validate ==
    /\ pc = "validate"
    /\ IF ValidateFirstChunk15(first_chunk) # "ok"
       THEN /\ exc' = [kind |-> ValidateFirstChunk15(first_chunk), url |-> <<bi, ni>>]
            /\ pc' = "except"
            /\ UNCHANGED <<zipf, partf, origin, calls, resp, got, first_chunk, bi, ni, last_error>>
       ELSE /\ zipf' = [zipf EXCEPT ![ci] = partf[ci]]          \* os.replace
            /\ partf' = [partf EXCEPT ![ci] = NoFile]
            /\ origin' = [origin EXCEPT ![ci] = Flatten(resp.chunks)]
            /\ calls' = [calls EXCEPT ![ci].res = "returned",
                                      ![ci].ret = <<bi, ni>>,
                                      ![ci].fail = NoExc,
                                      ![ci].oks = Append(@, TRUE)]
            /\ pc' = "extract"
            /\ resp' = NoResp /\ got' = 0 /\ first_chunk' = NoChunk
            /\ bi' = 1 /\ ni' = 1 /\ last_error' = NoExc
            /\ UNCHANGED exc
    /\ UNCHANGED <<run, ci, dbfs>>

\* the "except Exception" arm of _try_download, lines 194-202, and the raise of
\* line 204 once both loops are exhausted (main() does not catch it)
ExceptHandler_Reraises ==
    /\ pc = "except"
    /\ partf' = [partf EXCEPT ![ci] = NoFile]
    /\ exc' = NoExc
    /\ calls' = [calls EXCEPT ![ci].oks = Append(@, FALSE),
                              ![ci].fail = exc,
                              ![ci].res = "raised",
                              ![ci].err = [code |-> STATE_CODES[ci], last |-> exc]]
    /\ pc' = "aborted"
    /\ bi' = 1 /\ ni' = 1 /\ last_error' = NoExc
    /\ resp' = NoResp /\ got' = 0 /\ first_chunk' = NoChunk
    /\ UNCHANGED <<run, ci, zipf, dbfs, origin>>
ExceptHandler_KeepsPart ==
    /\ pc = "except"
    /\ exc' = NoExc
    /\ IF ni < NumNames
       THEN /\ ni' = ni + 1 /\ bi' = bi /\ pc' = "request"
            /\ calls' = [calls EXCEPT ![ci].oks = Append(@, FALSE), ![ci].fail = exc]
            /\ last_error' = exc
       ELSE IF bi < NumBases
       THEN /\ bi' = bi + 1 /\ ni' = 1 /\ pc' = "request"
            /\ calls' = [calls EXCEPT ![ci].oks = Append(@, FALSE), ![ci].fail = exc]
            /\ last_error' = exc
       ELSE /\ calls' = [calls EXCEPT ![ci].oks = Append(@, FALSE),
                                      ![ci].fail = exc,
                                      ![ci].res = "raised",
                                      ![ci].err = [code |-> STATE_CODES[ci], last |-> exc]]
            /\ pc' = "aborted"
            /\ bi' = 1 /\ ni' = 1 /\ last_error' = NoExc
    /\ resp' = NoResp /\ got' = 0 /\ first_chunk' = NoChunk
    /\ UNCHANGED <<run, ci, zipf, dbfs, origin, partf>>
ExceptHandler_BaseInner ==
    /\ pc = "except"
    /\ partf' = [partf EXCEPT ![ci] = NoFile]
    /\ exc' = NoExc
    /\ IF bi < NumBases
       THEN /\ bi' = bi + 1 /\ ni' = ni /\ pc' = "request"
            /\ calls' = [calls EXCEPT ![ci].oks = Append(@, FALSE), ![ci].fail = exc]
            /\ last_error' = exc
       ELSE IF ni < NumNames
       THEN /\ ni' = ni + 1 /\ bi' = 1 /\ pc' = "request"
            /\ calls' = [calls EXCEPT ![ci].oks = Append(@, FALSE), ![ci].fail = exc]
            /\ last_error' = exc
       ELSE /\ calls' = [calls EXCEPT ![ci].oks = Append(@, FALSE),
                                      ![ci].fail = exc,
                                      ![ci].res = "raised",
                                      ![ci].err = [code |-> STATE_CODES[ci], last |-> exc]]
            /\ pc' = "aborted"
            /\ bi' = 1 /\ ni' = 1 /\ last_error' = NoExc
    /\ resp' = NoResp /\ got' = 0 /\ first_chunk' = NoChunk
    /\ UNCHANGED <<run, ci, zipf, dbfs, origin>>
ExceptHandler ==
    /\ pc = "except"
    /\ partf' = [partf EXCEPT ![ci] = NoFile]        \* os.remove(part) if it exists
    /\ exc' = NoExc
    /\ IF ni < NumNames                              \* continue: next name
       THEN /\ ni' = ni + 1 /\ bi' = bi /\ pc' = "request"
            /\ calls' = [calls EXCEPT ![ci].oks = Append(@, FALSE), ![ci].fail = exc]
            /\ last_error' = exc
       ELSE IF bi < NumBases                         \* next base, first name
       THEN /\ bi' = bi + 1 /\ ni' = 1 /\ pc' = "request"
            /\ calls' = [calls EXCEPT ![ci].oks = Append(@, FALSE), ![ci].fail = exc]
            /\ last_error' = exc
       ELSE /\ calls' = [calls EXCEPT ![ci].oks = Append(@, FALSE),
                                      ![ci].fail = exc,
                                      ![ci].res = "raised",
                                      ![ci].err = [code |-> STATE_CODES[ci], last |-> exc]]
            /\ pc' = "aborted"
            /\ bi' = 1 /\ ni' = 1 /\ last_error' = NoExc      \* raise of line 204
    /\ resp' = NoResp /\ got' = 0 /\ first_chunk' = NoChunk
    /\ UNCHANGED <<run, ci, zipf, dbfs, origin>>

\* main(), lines 231-240, and the step of the for loop of line 220
ExtractDbfs ==
    /\ pc = "extract"
    /\ dbfs' = _extract_dbfs(zipf[ci], STATE_CODES[ci], dbfs)
    /\ IF ci < NumCodes
       THEN ci' = ci + 1 /\ pc' = "main_check"
       ELSE ci' = ci /\ pc' = "done"
    /\ UNCHANGED <<run, bi, ni, zipf, partf, resp, got, first_chunk, exc, last_error,
                   calls, origin>>

\* the script is started again over the same output directory
NewRun ==
    /\ pc \in {"done", "aborted"}
    /\ run < MaxRuns
    /\ run' = run + 1
    /\ ci' = 1 /\ pc' = "main_check" /\ bi' = 1 /\ ni' = 1
    /\ resp' = NoResp /\ got' = 0 /\ first_chunk' = NoChunk
    /\ exc' = NoExc /\ last_error' = NoExc
    /\ calls' = [c \in CodeIdx |-> NoCall]
    /\ UNCHANGED <<zipf, partf, dbfs, origin>>

ClassIdle == /\ cpc = "idle" /\ buf = <<>> /\ status = 0 /\ ctypeA = "" /\ ctypeB = ""
             /\ cls = "" /\ outA = "" /\ outB = ""
DbfIdle   == /\ dpc = "idle" /\ variant = "" /\ tbl = <<>> /\ dbf = <<>> /\ fpos = 0
             /\ hdr = <<>> /\ reci = 0 /\ csv = <<>> /\ derr = ""
FetchIdle == /\ run = 0 /\ ci = 0 /\ pc = "idle" /\ bi = 0 /\ ni = 0
             /\ zipf = <<>> /\ partf = <<>> /\ dbfs = {} /\ resp = NoResp /\ got = 0
             /\ first_chunk = NoChunk /\ exc = NoExc /\ last_error = NoExc
             /\ calls = <<>> /\ origin = <<>>
ValIdle   == /\ vpc = "idle" /\ vraw = <<>> /\ vtype = 0 /\ vdec = 0 /\ vout = <<>>
ExtIdle   == /\ xpc = "idle" /\ xvariant = "" /\ xzip = <<>> /\ xout = NoFile /\ xpre = NoFile
             /\ xmember = <<>> /\ xret = "" /\ xerr = "" /\ xrun = 0 /\ xdirty = FALSE
ProjIdle  == /\ ppc = "idle" /\ pvariant = "" /\ psrc = <<>> /\ pout = <<>> /\ out_headers = <<>>
             /\ missing = <<>> /\ pri = 0 /\ rows = <<>> /\ data_date = <<>> /\ perr = ""
CleanIdle == /\ kpc = "idle" /\ kvariant = "" /\ kvalue = <<>> /\ kout = <<>> /\ kagain = <<>>
HdrIdle   == /\ hpc = "idle" /\ hfile = <<>> /\ hres = <<>> /\ hrec = <<>>
ArcIdle   == /\ apc = "idle" /\ api = 0 /\ aspec = 0 /\ aprobe = <<>> /\ aregion = <<>> /\ afiles = <<>> /\ aresp = <<>> /\ aout = <<>> /\ areqs = <<>> /\ aret = <<>>
FtpIdle   == /\ tpc = "idle" /\ tci = 0 /\ tattempt = 0 /\ tftp = FALSE /\ tzip = <<>> /\ tpart = <<>> /\ tlast = "" /\ tlog = <<>> /\ textr = {}
PipeIdle  == /\ qpc = "idle" /\ qrun = 0 /\ qrows = 0 /\ qint = FALSE

InitFetch == FetchInit /\ ClassIdle /\ DbfIdle /\ ValIdle /\ ExtIdle /\ ProjIdle /\ CleanIdle /\ HdrIdle /\ ArcIdle /\ FtpIdle /\ PipeIdle
NextFetch ==
    \/ MainCheck /\ UNCHANGED notFetch
    \/ Request /\ UNCHANGED notFetch
    \/ StreamChunk /\ UNCHANGED notFetch
    \/ Validate /\ UNCHANGED notFetch
    \/ ExceptHandler /\ UNCHANGED notFetch
    \/ ExtractDbfs /\ UNCHANGED notFetch
    \/ NewRun /\ UNCHANGED notFetch
SpecFetch == InitFetch /\ [][NextFetch]_vars

-----------------------------------------------------------------------------
(* Content classification: the checks of v1_5 and _download_zip_validated of  *)
(* v1_7 applied to one response body under two Content-Type headers          *)

MaxWs == 2         \* bound: leading whitespace bytes put before a buffer

\* first_chunk = chunk[:2048] of v1_7
FirstChunkLen17 == 2048

RECURSIVE SeqsOver(_, _)
\* all sequences over S of length at most n
SeqsOver(S, n) == IF n = 0 THEN {<<>>}
                  ELSE SeqsOver(S, n - 1) \cup
                       {Append(q, x) : q \in {r \in SeqsOver(S, n - 1) : Len(r) = n - 1}, x \in S}

BufferCores ==
    { <<80, 75>>, <<80, 75, 3, 4>>, ZipFileA, EOCD,          \* "PK", "PK\3\4", archives
      <<80>>, <<112, 107>>, <<75, 80>>,                      \* "P", "pk", "KP"
      <<77, 90>> \o EOCD,                                    \* "MZ" stub + archive tail
      TAG_HTML, <<60, 72, 84, 77, 76, 62>>,                  \* "<html", "<HTML>"
      <<60, 33, 68, 79, 67, 84, 89, 80, 69>>,                \* "<!DOCTYPE"
      TAG_XML, <<60, 104, 116, 109>>, <<60>>,                \* "<?xml", "<htm", "<"
      <<60, 112, 62>> \o TAG_HTML,                           \* "<p><html"
      <<120>> \o TAG_HTML,                                   \* "x<html"
      <<104, 116, 109, 108>>,                                \* "html"
      <<120, 121>>, <<>>,                                    \* "xy", empty body
      \* "<", filler, "<html": the tag ends at byte HtmlWindow15, and one byte later
      <<60>> \o Rep(120, HtmlWindow15 - 6) \o TAG_HTML,
      <<60>> \o Rep(120, HtmlWindow15 - 5) \o TAG_HTML,
      <<60>> \o Rep(120, HtmlWindow17 - 6) \o TAG_XML,
      <<60>> \o Rep(120, HtmlWindow17 - 5) \o TAG_XML }

Buffers == { w \o c : w \in SeqsOver({32, 10}, MaxWs), c \in BufferCores }

\* Content-Type header values: missing, "x/zip", "X/ZIP", "text/html"
CTypes == { <<>>, <<120, 47, 122, 105, 112>>, <<88, 47, 90, 73, 80>>,
            <<116, 101, 120, 116, 47, 104, 116, 109, 108>> }
ZIP_WORD == <<122, 105, 112>>                                 \* "zip"
Statuses == {200, 404}

\* the three classes of the content check, from the error v1_5 raises
Classification(kind) ==
    CASE kind = "ok"     -> "Valid"
      [] kind = "html"   -> "LooksLikeErrorDocument"
      [] kind = "nonzip" -> "Unrecognized"
      [] OTHER           -> "NoBuffer"

\* first_chunk after the iter_content loop over a body sent as one chunk
FirstChunkOf(body, n) ==
    IF body = <<>> THEN NoChunk ELSE [set |-> TRUE, data |-> Take(body, n)]

\* lines 167-189 of v1_7: the byte checks, the same whatever the Content-Type
ByteChecks17(fc, body) ==
    IF _looks_like_html(fc.data, HtmlWindow17) \/ ~_is_zip_magic(fc.data)
    THEN "notzip"                                         \* lines 167-184
    ELSE IF ~IsZipfile(body) THEN "badzip"                \* lines 186-187
    ELSE "ok"                                             \* line 189

\* _download_zip_validated of v1_7 on a response (status, Content-Type, body):
\* "ok" when os.replace is reached, else the error raised
_download_zip_validated17_ctype_enforced(st, ctypeHeader, body) ==
    LET ctype == Lower(ctypeHeader)
        fc == FirstChunkOf(body, FirstChunkLen17)
    IN  IF st >= 400 THEN "http"
        ELSE IF ~fc.set THEN "empty"
        ELSE IF ctype # <<>> /\ ~Contains(ctype, ZIP_WORD)
        THEN "notzip"
        ELSE ByteChecks17(fc, body)
_download_zip_validated17(st, ctypeHeader, body) ==
    LET ctype == Lower(ctypeHeader)                       \* line 146
        fc == FirstChunkOf(body, FirstChunkLen17)         \* lines 149-157
    IN  IF st >= 400 THEN "http"                          \* resp.raise_for_status()
        ELSE IF ~fc.set THEN "empty"                      \* line 159
        ELSE IF ctype # <<>> /\ ~Contains(ctype, ZIP_WORD)
        THEN ByteChecks17(fc, body)                       \* lines 163-165: pass
        ELSE ByteChecks17(fc, body)

ClassInit ==
    /\ cpc = "start"
    /\ buf \in Buffers
    /\ status \in Statuses
    /\ ctypeA \in CTypes /\ ctypeB \in CTypes /\ ctypeA # ctypeB
    /\ cls = "" /\ outA = "" /\ outB = ""

\* the v1_5 checks on the first chunk of the body
Classify15 ==
    /\ cpc = "start" /\ cls = ""
    /\ cls' = Classification(ValidateFirstChunk15(FirstChunkOf(buf, FirstChunkLen15)))
    /\ UNCHANGED <<cpc, buf, status, ctypeA, ctypeB, outA, outB>>

\* the v1_7 download of the body served with Content-Type ctypeA
Download17A ==
    /\ cpc = "start" /\ outA = ""
    /\ outA' = _download_zip_validated17(status, ctypeA, buf)
    /\ UNCHANGED <<cpc, buf, status, ctypeA, ctypeB, cls, outB>>

\* the v1_7 download of the same body served with Content-Type ctypeB
Download17B ==
    /\ cpc = "start" /\ outB = ""
    /\ outB' = _download_zip_validated17(status, ctypeB, buf)
    /\ UNCHANGED <<cpc, buf, status, ctypeA, ctypeB, cls, outA>>

InitClassify == ClassInit /\ FetchIdle /\ DbfIdle /\ ValIdle /\ ExtIdle /\ ProjIdle /\ CleanIdle /\ HdrIdle /\ ArcIdle /\ FtpIdle /\ PipeIdle
NextClassify ==
    \/ Classify15 /\ UNCHANGED notClass
    \/ Download17A /\ UNCHANGED notClass
    \/ Download17B /\ UNCHANGED notClass
SpecClassify == InitClassify /\ [][NextClassify]_vars

-----------------------------------------------------------------------------
(* DBF decoding: _parse_dbf_header_and_fields, _parse_dbf_value, dbf_to_csv   *)
(* of v2_2 and v2_4                                                           *)

\* f.read(n) at position pos of an open file
FRead(file, pos, n) == SubSeq(file, Min(pos, Len(file)) + 1, Min(pos + n, Len(file)))

\* struct.unpack("<H", b[i:i+2]) and struct.unpack("<I", b[i:i+4]), i 0-based
LE16(b, i) == b[i + 1] + 256 * b[i + 2]
LE32(b, i) == b[i + 1] + 256 * b[i + 2] + 65536 * b[i + 3] + 16777216 * b[i + 4]

\* the characters str.strip() removes, among the 256 that latin-1 decodes to
StrWhitespace == {9, 10, 11, 12, 13, 28, 29, 30, 31, 32, 133, 160}

RECURSIVE LStripStr(_)
LStripStr(t) == IF t # <<>> /\ t[1] \in StrWhitespace THEN LStripStr(Tail(t)) ELSE t
RECURSIVE RStripStr(_)
\* str.rstrip()
RStripStr(t) == IF t # <<>> /\ t[Len(t)] \in StrWhitespace
                THEN RStripStr(SubSeq(t, 1, Len(t) - 1)) ELSE t
\* str.strip()
StripStr(t) == RStripStr(LStripStr(t))

\* name = desc[0:11].split(b"\x00", 1)[0].decode("ascii", errors="ignore").strip()
RECURSIVE UpToNul(_)
UpToNul(b) == IF b = <<>> \/ b[1] = 0 THEN <<>> ELSE <<b[1]>> \o UpToNul(Tail(b))
AsciiIgnore(b) == SelectSeq(b, LAMBDA x : x < 128)
DescName(desc) == StripStr(AsciiIgnore(UpToNul(Take(desc, 11))))

\* one field descriptor: (name, ftype, flen, fdec)
Field(n, t, l, d) == [name |-> n, type |-> t, len |-> l, dec |-> d]
DescField(desc) == Field(DescName(desc), desc[12], desc[17], desc[18])

ParseOk(nrec, rlen, fields, pos) ==
    [err |-> "", nrec |-> nrec, rlen |-> rlen, fields |-> fields, pos |-> pos]
ParseErr(e) == [err |-> e, nrec |-> 0, rlen |-> 0, fields |-> <<>>, pos |-> 0]

\* the "while True" loop of _parse_dbf_header_and_fields (v2_2), lines 164-175:
\* the fields read, or "eof" when a read returns fewer than 32 bytes
RECURSIVE ReadDescs22(_, _, _)
ReadDescs22(file, pos, fields) ==
    LET desc == FRead(file, pos, 32) IN
    IF Len(desc) < 32 THEN [eof |-> TRUE, fields |-> fields]
    ELSE IF desc[1] = 13 THEN [eof |-> FALSE, fields |-> fields]
    ELSE ReadDescs22(file, pos + 32, Append(fields, DescField(desc)))

\* a header parse that leaves the position after the last 32-byte read
_parse_dbf_header_and_fields22_no_seek(file) ==
    LET header == FRead(file, 0, 32) IN
    IF Len(header) < 32 THEN ParseErr("ValueError: File too short to be a DBF.")
    ELSE LET r == ReadDescs22(file, 32, <<>>) IN
         IF r.eof
         THEN ParseErr("ValueError: Unexpected EOF reading DBF field descriptors.")
         ELSE ParseOk(LE32(header, 4), LE16(header, 10), r.fields, 32 + 32 * (Len(r.fields) + 1))

\* _parse_dbf_header_and_fields of v2_2, lines 154-178
_parse_dbf_header_and_fields22(file) ==
    LET header == FRead(file, 0, 32) IN
    IF Len(header) < 32 THEN ParseErr("ValueError: File too short to be a DBF.")
    ELSE LET r == ReadDescs22(file, 32, <<>>) IN
         IF r.eof
         THEN ParseErr("ValueError: Unexpected EOF reading DBF field descriptors.")
         ELSE ParseOk(LE32(header, 4), LE16(header, 10), r.fields, LE16(header, 8))

\* the loop of _parse_dbf_header_and_fields (v2_4), lines 101-108: d[0], d[11],
\* d[16], d[17] raise IndexError on a read that is too short
RECURSIVE ReadDescs24(_, _, _)
ReadDescs24(file, pos, fields) ==
    LET d == FRead(file, pos, 32) IN
    IF d = <<>> THEN [eof |-> TRUE, fields |-> fields]
    ELSE IF d[1] = 13 THEN [eof |-> FALSE, fields |-> fields]
    ELSE IF Len(d) < 18 THEN [eof |-> TRUE, fields |-> fields]
    ELSE ReadDescs24(file, pos + Len(d),
                     Append(fields, Field(DescName(d), d[12], d[17], d[18])))

\* _parse_dbf_header_and_fields of v2_4, lines 95-110
_parse_dbf_header_and_fields24(file) ==
    LET h == FRead(file, 0, 32) IN
    IF Len(h) < 12 THEN ParseErr("struct.error")
    ELSE LET r == ReadDescs24(file, Len(h), <<>>) IN
         IF r.eof THEN ParseErr("IndexError")
         ELSE ParseOk(LE32(h, 4), LE16(h, 10), r.fields, LE16(h, 8))

\* Decoded values: str, int, float and bool objects of Python.  s holds the text
\* of a str (and the source text of a float), n the value of an int or bool.
StrV(t)   == [t |-> "str", s |-> t, n |-> 0]
IntV(k)   == [t |-> "int", s |-> <<>>, n |-> k]
FloatV(t) == [t |-> "float", s |-> t, n |-> 0]
BoolV(b)  == [t |-> "bool", s |-> <<>>, n |-> IF b THEN 1 ELSE 0]

AsciiDigits == 48..57
\* characters below 256 for which str.isdigit() is true: 0-9 and the
\* superscripts U+00B2, U+00B3, U+00B9 (which int() rejects)
IsDigitChars == AsciiDigits \cup {178, 179, 185}

\* digits with single underscores between them, as int() and float() accept
DigitPart(t) ==
    /\ t # <<>>
    /\ t[1] \in AsciiDigits /\ t[Len(t)] \in AsciiDigits
    /\ \A i \in 1..Len(t) : t[i] \in AsciiDigits \cup {95}
    /\ \A i \in 1..(Len(t) - 1) : ~(t[i] = 95 /\ t[i + 1] = 95)
Unsigned(t) == IF t # <<>> /\ t[1] \in {43, 45} THEN Tail(t) ELSE t
\* int(st) does not raise
IsIntLiteral(t) == DigitPart(Unsigned(t))
RECURSIVE DigitsValue(_, _)
DigitsValue(t, acc) ==
    IF t = <<>> THEN acc
    ELSE DigitsValue(Tail(t), IF t[1] = 95 THEN acc ELSE 10 * acc + (t[1] - 48))
\* int(st)
IntValue(t) == IF t[1] = 45 THEN 0 - DigitsValue(Unsigned(t), 0)
               ELSE DigitsValue(Unsigned(t), 0)

\* float(st) does not raise: [sign] (digits [. [digits]] | . digits) [e [sign] digits],
\* or inf, infinity, nan in any case
IsMantissa(t) ==
    \/ DigitPart(t)
    \/ \E i \in 1..Len(t) :
          /\ t[i] = 46
          /\ LET ip == SubSeq(t, 1, i - 1)
                 fp == SubSeq(t, i + 1, Len(t))
             IN  /\ ip = <<>> \/ DigitPart(ip)
                 /\ fp = <<>> \/ DigitPart(fp)
                 /\ ip # <<>> \/ fp # <<>>
IsFloatLiteral(t) ==
    LET u == Unsigned(t) IN
    \/ Lower(u) \in { <<105, 110, 102>>, <<110, 97, 110>>,
                      <<105, 110, 102, 105, 110, 105, 116, 121>> }
    \/ IsMantissa(u)
    \/ \E i \in 1..Len(u) :
          /\ u[i] \in {69, 101}
          /\ IsMantissa(SubSeq(u, 1, i - 1))
          /\ DigitPart(Unsigned(SubSeq(u, i + 1, Len(u))))

\* datetime.date(y, m, d) does not raise
IsLeap(y) == (y % 4 = 0 /\ y % 100 # 0) \/ y % 400 = 0
DaysIn(y, m) == IF m = 2 THEN (IF IsLeap(y) THEN 29 ELSE 28)
                ELSE IF m \in {4, 6, 9, 11} THEN 30 ELSE 31
IsDate(y, m, d) == y \in 1..9999 /\ m \in 1..12 /\ d \in 1..DaysIn(y, m)
\* d.isoformat() of the date written YYYYMMDD in st
IsoFormat(st) == SubSeq(st, 1, 4) \o <<45>> \o SubSeq(st, 5, 6) \o <<45>> \o SubSeq(st, 7, 8)

\* a decoder that chooses between float and int by the text alone
_parse_dbf_value_dec_ignored(raw, ftype, dec) ==
    LET s == raw
        st == StripStr(s)
    IN  IF ftype = 67 THEN StrV(RStripStr(s))                            \* "C"
        ELSE IF ftype \in {78, 70}                                       \* "N", "F"
        THEN IF st = <<>> THEN StrV(<<>>)
             ELSE IF Contains(st, <<46>>)
             THEN (IF IsFloatLiteral(st) THEN FloatV(st) ELSE StrV(st))
             ELSE (IF IsIntLiteral(st) THEN IntV(IntValue(st)) ELSE StrV(st))
        ELSE IF ftype = 76                                               \* "L"
        THEN LET ch == IF s = <<>> THEN 0 ELSE UpperByte(s[1]) IN
             IF ch \in {89, 84} THEN BoolV(TRUE)
             ELSE IF ch \in {78, 70} THEN BoolV(FALSE)
             ELSE StrV(<<>>)
        ELSE IF ftype = 68                                               \* "D"
        THEN IF Len(st) = 8 /\ \A i \in 1..8 : st[i] \in IsDigitChars
             THEN IF /\ \A i \in 1..8 : st[i] \in AsciiDigits
                     /\ IsDate(DigitsValue(SubSeq(st, 1, 4), 0),
                               DigitsValue(SubSeq(st, 5, 6), 0),
                               DigitsValue(SubSeq(st, 7, 8), 0))
                  THEN StrV(IsoFormat(st))
                  ELSE StrV(st)                                          \* except: return st
             ELSE StrV(<<>>)
        ELSE StrV(st)

\* _parse_dbf_value(raw, ftype, dec, "latin-1") of v2_2, lines 181-211
\* (latin-1 decodes byte x to character x)
_parse_dbf_value(raw, ftype, dec) ==
    LET s == raw
        st == StripStr(s)
    IN  IF ftype = 67 THEN StrV(RStripStr(s))                            \* "C"
        ELSE IF ftype \in {78, 70}                                       \* "N", "F"
        THEN IF st = <<>> THEN StrV(<<>>)
             ELSE IF Contains(st, <<46>>) \/ dec > 0
             THEN (IF IsFloatLiteral(st) THEN FloatV(st) ELSE StrV(st))
             ELSE (IF IsIntLiteral(st) THEN IntV(IntValue(st)) ELSE StrV(st))
        ELSE IF ftype = 76                                               \* "L"
        THEN LET ch == IF s = <<>> THEN 0 ELSE UpperByte(s[1]) IN
             IF ch \in {89, 84} THEN BoolV(TRUE)
             ELSE IF ch \in {78, 70} THEN BoolV(FALSE)
             ELSE StrV(<<>>)
        ELSE IF ftype = 68                                               \* "D"
        THEN IF Len(st) = 8 /\ \A i \in 1..8 : st[i] \in IsDigitChars
             THEN IF /\ \A i \in 1..8 : st[i] \in AsciiDigits
                     /\ IsDate(DigitsValue(SubSeq(st, 1, 4), 0),
                               DigitsValue(SubSeq(st, 5, 6), 0),
                               DigitsValue(SubSeq(st, 7, 8), 0))
                  THEN StrV(IsoFormat(st))
                  ELSE StrV(st)                                          \* except: return st
             ELSE StrV(<<>>)
        ELSE StrV(st)

RECURSIVE SumLen(_, _)
\* the value of offset before field k: 1 + the lengths of the fields before it
SumLen(fields, k) == IF k <= 1 THEN 0 ELSE fields[k - 1].len + SumLen(fields, k - 1)
\* an offset that starts at the deletion flag
FieldOffset_FromFlag(fields, k) == SumLen(fields, k)
FieldOffset(fields, k) == 1 + SumLen(fields, k)

\* the decoded value of field k of rec (v2_2 lines 236-237, v2_4 line 126)
FieldValue22(fields, rec, k) ==
    _parse_dbf_value(Slice(rec, FieldOffset(fields, k), FieldOffset(fields, k) + fields[k].len),
                     fields[k].type, fields[k].dec)
FieldValue24(fields, rec, k) ==
    StrV(StripStr(Slice(rec, FieldOffset(fields, k), FieldOffset(fields, k) + fields[k].len)))

\* the row csv.DictWriter writes for the dict built from rec: one cell per header
\* column, holding the value stored last under that column's name
LastNamed(fields, k) ==
    CHOOSE j \in 1..Len(fields) :
        /\ fields[j].name = fields[k].name
        /\ \A i \in 1..Len(fields) : fields[i].name = fields[k].name => i <= j
RowOf22(fields, rec) == [k \in 1..Len(fields) |-> FieldValue22(fields, rec, LastNamed(fields, k))]
RowOf24(fields, rec) == [k \in 1..Len(fields) |-> FieldValue24(fields, rec, LastNamed(fields, k))]

\* ---- table files given to dbf_to_csv

MaxRecs == 3       \* bound: records of a table file
MaxCut  == 2       \* bound: bytes missing at the end of a truncated file

U16(n) == << n % 256, (n \div 256) % 256 >>
U32(n) == << n % 256, (n \div 256) % 256, (n \div 65536) % 256, (n \div 16777216) % 256 >>
PadRight(b, n, x) == b \o Rep(x, n - Len(b))
PadLeft(b, n, x) == Rep(x, n - Len(b)) \o b

\* the field lists of the tables: ID C(3); NAME C(7) with N N(8); and ID C(3)
\* with a field V of length 8 and type "L", "D", "F" or the unknown "X"
ValueTypes == {76, 68, 70, 88}
ValueField(ty) == Field(<<86>>, ty, 8, 0)
FieldSets == { << Field(<<73, 68>>, 67, 3, 0) >>,
               << Field(<<78, 65, 77, 69>>, 67, 7, 0), Field(<<78>>, 78, 8, 0) >> }
             \cup { << Field(<<73, 68>>, 67, 3, 0), ValueField(ty) >> : ty \in ValueTypes }
HasValueField(fs) == \E i \in 1..Len(fs) : fs[i].name = <<86>>
\* what the records hold in field V: 00000000, "1e5", "?", bytes 0xFF 0x00,
\* and '"' "," CR LF
Fills == { Rep(48, 8), <<49, 101, 53>>, <<63>>, <<255, 0>>, <<34, 44, 13, 10>> }
\* bytes of header padding between the 0x0D terminator and the first record
Pads == {0, 30}

\* A table: its fields, its n records of which those in del carry the deletion
\* flag, the content of field V, the header padding, whether an 0x1A end-of-file
\* byte follows the records, and the number of bytes cut off the end of the file.
WholeTables(fs, n) ==
    { [fields |-> fs, n |-> n, del |-> d, fill |-> x, pad |-> p, eof |-> e, cut |-> 0] :
        d \in SUBSET (1..n),
        x \in (IF HasValueField(fs) THEN Fills ELSE {<<>>}),
        p \in Pads, e \in BOOLEAN }
WellFormed(t) == t.del \subseteq 1..t.n

RecordLen(fields) == 1 + SumLen(fields, Len(fields) + 1)
HeaderLen(t) == 32 + 32 * Len(t.fields) + 1 + t.pad

\* the bytes of field f in record k: the digit k, left-justified in a character
\* field, right-justified in a numeric one
FieldBytes(t, f, k) == IF f.name = <<86>> THEN PadRight(t.fill, f.len, 32)
                       ELSE IF f.type = 67 THEN PadRight(<<48 + k>>, f.len, 32)
                       ELSE PadLeft(<<48 + k>>, f.len, 32)
RECURSIVE RecordBody(_, _, _)
RecordBody(t, k, i) ==
    IF i > Len(t.fields) THEN <<>>
    ELSE FieldBytes(t, t.fields[i], k) \o RecordBody(t, k, i + 1)
RecordBytes(t, k) == << IF k \in t.del THEN 42 ELSE 32 >> \o RecordBody(t, k, 1)
RECURSIVE RecordArea(_, _)
RecordArea(t, k) == IF k > t.n THEN <<>> ELSE RecordBytes(t, k) \o RecordArea(t, k + 1)

Descriptor(f) == PadRight(f.name, 11, 0) \o <<f.type>> \o Rep(0, 4)
                 \o <<f.len, f.dec>> \o Rep(0, 14)
RECURSIVE Descriptors(_, _)
Descriptors(fields, i) ==
    IF i > Len(fields) THEN <<>> ELSE Descriptor(fields[i]) \o Descriptors(fields, i + 1)

\* the file of table t, before truncation
FullFile(t) ==
    <<3, 99, 1, 1>> \o U32(t.n) \o U16(HeaderLen(t)) \o U16(RecordLen(t.fields)) \o Rep(0, 20)
    \o Descriptors(t.fields, 1) \o <<13>> \o Rep(0, t.pad)
    \o RecordArea(t, 1) \o (IF t.eof THEN <<26>> ELSE <<>>)
FileLen(t) == HeaderLen(t) + t.n * RecordLen(t.fields) + (IF t.eof THEN 1 ELSE 0)
FileOf(t) == SubSeq(FullFile(t), 1, FileLen(t) - Min(t.cut, FileLen(t)))

\* lengths a file is cut down to inside its header: nothing, one byte short of
\* the 32-byte header, the header alone, the header and one descriptor
KeptLens == {0, 31, 32, 64}
\* the numbers of bytes cut off the end of the file of t
Cuts(t) == (0..MaxCut) \cup { FileLen(t) - k : k \in KeptLens }
\* the tables with fields fs and n records
Tables(fs, n) == UNION { { [t EXCEPT !.cut = c] : c \in Cuts(t) } : t \in WholeTables(fs, n) }

NoCsv == [exists |-> FALSE, header |-> <<>>, rows |-> <<>>]
NoHdr == ParseErr("")

DbfInit ==
    /\ dpc = "open"
    /\ variant \in {"v2_2", "v2_4"}
    /\ \E fs \in FieldSets, n \in 0..MaxRecs : tbl \in {t \in Tables(fs, n) : WellFormed(t)}
    /\ dbf = FileOf(tbl)
    /\ fpos = 0 /\ hdr = NoHdr /\ reci = 0 /\ csv = NoCsv /\ derr = ""

\* dbf_to_csv of v2_2, lines 215-224: the early return, the header parse, and
\* the header row of the CSV
OpenDbf22 ==
    /\ dpc = "open" /\ variant = "v2_2"
    /\ IF csv.exists /\ (csv.header # <<>> \/ csv.rows # <<>>)
       THEN /\ dpc' = "done"
            /\ UNCHANGED <<hdr, derr, fpos, csv>>
       ELSE LET r == _parse_dbf_header_and_fields22(dbf) IN
            /\ hdr' = r /\ derr' = r.err /\ fpos' = r.pos
            /\ dpc' = IF r.err # "" THEN "raised" ELSE "records"
            /\ csv' = IF r.err # "" THEN csv
                      ELSE [exists |-> TRUE,
                            header |-> [k \in 1..Len(r.fields) |-> r.fields[k].name],
                            rows |-> <<>>]
    /\ UNCHANGED <<variant, tbl, dbf, reci>>

\* a record loop in which the date constructor's ValueError is not caught
ReadRecord22_DateUncaught ==
    /\ dpc = "records" /\ variant = "v2_2"
    /\ IF reci >= hdr.nrec
       THEN dpc' = "done" /\ UNCHANGED <<fpos, reci, csv, derr>>
       ELSE LET rec == FRead(dbf, fpos, hdr.rlen) IN
            /\ fpos' = fpos + Len(rec)
            /\ IF rec = <<>> \/ Len(rec) < hdr.rlen
               THEN dpc' = "done" /\ UNCHANGED <<reci, csv, derr>>
               ELSE IF /\ rec[1] # 42
                       /\ \E k \in 1..Len(hdr.fields) :
                             /\ hdr.fields[k].type = 68
                             /\ FieldValue22(hdr.fields, rec, k).s = Rep(48, 8)
               THEN dpc' = "raised" /\ derr' = "ValueError" /\ UNCHANGED <<reci, csv>>
               ELSE /\ reci' = reci + 1
                    /\ dpc' = dpc /\ derr' = derr
                    /\ csv' = IF rec[1] = 42 THEN csv
                              ELSE [csv EXCEPT !.rows = Append(@, RowOf22(hdr.fields, rec))]
    /\ UNCHANGED <<variant, tbl, dbf, hdr>>

\* one turn of "for _ in range(num_records)" of v2_2, lines 226-240
ReadRecord22 ==
    /\ dpc = "records" /\ variant = "v2_2"
    /\ IF reci >= hdr.nrec
       THEN dpc' = "done" /\ UNCHANGED <<fpos, reci, csv>>
       ELSE LET rec == FRead(dbf, fpos, hdr.rlen) IN
            /\ fpos' = fpos + Len(rec)
            /\ IF rec = <<>> \/ Len(rec) < hdr.rlen
               THEN dpc' = "done" /\ UNCHANGED <<reci, csv>>            \* break
               ELSE /\ reci' = reci + 1
                    /\ dpc' = dpc
                    /\ csv' = IF rec[1] = 42 THEN csv                   \* continue
                              ELSE [csv EXCEPT !.rows = Append(@, RowOf22(hdr.fields, rec))]
    /\ UNCHANGED <<variant, tbl, dbf, hdr, derr>>

\* dbf_to_csv of v2_4, lines 114-119
OpenDbf24 ==
    /\ dpc = "open" /\ variant = "v2_4"
    /\ LET r == _parse_dbf_header_and_fields24(dbf) IN
       /\ hdr' = r /\ derr' = r.err /\ fpos' = r.pos
       /\ dpc' = IF r.err # "" THEN "raised" ELSE "records"
       /\ csv' = IF r.err # "" THEN csv
                 ELSE [exists |-> TRUE,
                       header |-> [k \in 1..Len(r.fields) |-> r.fields[k].name],
                       rows |-> <<>>]
    /\ UNCHANGED <<variant, tbl, dbf, reci>>

\* one turn of "for _ in range(nrec)" of v2_4, lines 120-128
ReadRecord24 ==
    /\ dpc = "records" /\ variant = "v2_4"
    /\ IF reci >= hdr.nrec
       THEN dpc' = "done" /\ UNCHANGED <<fpos, reci, csv>>
       ELSE LET rec == FRead(dbf, fpos, hdr.rlen) IN
            /\ fpos' = fpos + Len(rec)
            /\ reci' = reci + 1
            /\ dpc' = dpc
            /\ csv' = IF Take(rec, 1) = <<42>> THEN csv
                      ELSE [csv EXCEPT !.rows = Append(@, RowOf24(hdr.fields, rec))]
    /\ UNCHANGED <<variant, tbl, dbf, hdr, derr>>

InitDbf == DbfInit /\ FetchIdle /\ ClassIdle /\ ValIdle /\ ExtIdle /\ ProjIdle /\ CleanIdle /\ HdrIdle /\ ArcIdle /\ FtpIdle /\ PipeIdle
NextDbf ==
    \/ OpenDbf22 /\ UNCHANGED notDbf
    \/ ReadRecord22 /\ UNCHANGED notDbf
    \/ OpenDbf24 /\ UNCHANGED notDbf
    \/ ReadRecord24 /\ UNCHANGED notDbf
SpecDbf == InitDbf /\ [][NextDbf]_vars

-----------------------------------------------------------------------------
(* Field decoding on its own: one call of _parse_dbf_value (v2_2) per behaviour *)

MaxPad == 1        \* bound: blanks put before and after a field's text
MaxText == 2       \* bound: length of the short field texts

\* characters of the short field texts: blank, "-", ".", "1", "?", "T", "Y",
\* "e", "f", "n"
TextChars == {32, 45, 46, 49, 63, 84, 89, 101, 102, 110}
\* the letters a logical field is decoded from, alone and before other text:
\* Y y T t N n F f, "Yes", "no", "?Y", and the tab and '"' characters
LogicalTexts ==
    { <<c>> : c \in {89, 121, 84, 116, 78, 110, 70, 102, 9, 34} }
    \cup { <<89, 101, 115>>, <<110, 111>>, <<63, 89>> }
\* eight-character field texts: 19991231, 00000000, 20240229, 20230229,
\* 19990431, 99991231, 1999-2-3, 1999123 and a blank, eight superscript twos
DateTexts ==
    { <<49, 57, 57, 57, 49, 50, 51, 49>>, <<48, 48, 48, 48, 48, 48, 48, 48>>,
      <<50, 48, 50, 52, 48, 50, 50, 57>>, <<50, 48, 50, 51, 48, 50, 50, 57>>,
      <<49, 57, 57, 57, 48, 52, 51, 49>>, <<57, 57, 57, 57, 49, 50, 51, 49>>,
      <<49, 57, 57, 57, 45, 50, 45, 51>>, <<49, 57, 57, 57, 49, 50, 51, 32>>,
      Rep(178, 8) }
\* longer numeric texts: 12.50, 1.5e3, 1_000, -42, inf, 1.2.3, 12abc, 007
NumberTexts ==
    { <<49, 50, 46, 53, 48>>, <<49, 46, 53, 101, 51>>, <<49, 95, 48, 48, 48>>,
      <<45, 52, 50>>, <<105, 110, 102>>, <<49, 46, 50, 46, 51>>,
      <<49, 50, 97, 98, 99>>, <<48, 48, 55>> }
FieldTexts == SeqsOver(TextChars, MaxText) \cup LogicalTexts \cup DateTexts \cup NumberTexts
\* the raw bytes of a field: a text with blanks around it
RawFields == { Rep(32, a) \o t \o Rep(32, b) : t \in FieldTexts, a \in 0..MaxPad, b \in 0..MaxPad }
\* type codes "C", "N", "F", "L", "D", and "M", "X" which the decoder does not know
FieldTypes == {67, 78, 70, 76, 68, 77, 88}
Decimals == {0, 2}

NoValue == [t |-> "none", s |-> <<>>, n |-> 0]

ValInit ==
    /\ vpc = "call"
    /\ vraw \in RawFields /\ vtype \in FieldTypes /\ vdec \in Decimals
    /\ vout = NoValue

\* row[name] = _parse_dbf_value(raw, ftype, fdec, encoding), encoding "latin-1"
ParseValue ==
    /\ vpc = "call"
    /\ vout' = _parse_dbf_value(vraw, vtype, vdec)
    /\ vpc' = "returned"
    /\ UNCHANGED <<vraw, vtype, vdec>>

InitValue == ValInit /\ FetchIdle /\ ClassIdle /\ DbfIdle /\ ExtIdle /\ ProjIdle /\ CleanIdle /\ HdrIdle /\ ArcIdle /\ FtpIdle /\ PipeIdle
NextValue == ParseValue /\ UNCHANGED notVal
SpecValue == InitValue /\ [][NextValue]_vars

-----------------------------------------------------------------------------
(* Member extraction: _extract_dbf of v2_2 and v2_4, called in successive runs *)

MaxEntries == 3    \* bound: entries of an archive

\* what reading an entry does: "ok", or z.open(member) raises ("open": bad local
\* header, unsupported compression, encrypted), or src.read() raises ("read":
\* CRC mismatch, corrupt compressed data)
Readings == {"ok", "open", "read"}
EntryNames == {NameShp, NameDbfUp, NameDbfLow}
\* entry i of an archive holds the one byte 64 + i
Entry(nm, i, rd) == [name |-> nm, data |-> <<64 + i>>, bad |-> rd]
\* the archive at zip_path: one that zipfile.ZipFile() refuses (BadZipFile), or
\* its entries in listing order; names may repeat
BadArchive == [valid |-> FALSE, entries |-> <<>>]
\* the readable archives of k entries
Archives(k) ==
    { [valid |-> TRUE, entries |-> [i \in 1..k |-> Entry(f[i][1], i, f[i][2])]] :
        f \in [1..k -> EntryNames \X Readings] }
\* the file at DBF_DIR/<code>.dbf before the first run: absent, empty, or "old"
PriorFiles == { NoFile, File(<<>>), File(<<111, 108, 100>>) }

\* z.namelist()
Namelist(z) == [i \in 1..Len(z.entries) |-> z.entries[i].name]
\* [m for m in z.namelist() if m.lower().endswith(".dbf")]
DbfMembers(z) == SelectSeq(Namelist(z), LAMBDA nm : EndsWith(Lower(nm), DOT_DBF))
\* z.getinfo(name), which z.open(name) reads: NameToInfo[name] is the entry
\* listed last under that name
GetInfo(z, nm) ==
    z.entries[CHOOSE i \in 1..Len(z.entries) :
                 /\ z.entries[i].name = nm
                 /\ \A j \in 1..Len(z.entries) : z.entries[j].name = nm => j <= i]

ExtInit ==
    /\ xpc = "call" /\ xvariant \in {"v2_2", "v2_4"}
    /\ \/ xzip = BadArchive
       \/ \E k \in 0..MaxEntries : xzip \in Archives(k)
    /\ xout \in PriorFiles /\ xpre = xout
    /\ xmember = <<>> /\ xret = "" /\ xerr = "" /\ xrun = 1 /\ xdirty = FALSE

\* _extract_dbf of v2_2, lines 135-147: the early return, the opening of the
\* archive, the choice of the member
ExtractStart22 ==
    /\ xpc = "call" /\ xvariant = "v2_2"
    /\ xpre' = xout
    /\ IF ExistsNonEmpty(xout)
       THEN xpc' = "returned" /\ xret' = "path" /\ UNCHANGED <<xerr, xmember>>
       ELSE IF ~xzip.valid
       THEN xpc' = "raised" /\ xerr' = "BadZipFile" /\ UNCHANGED <<xret, xmember>>
       ELSE IF DbfMembers(xzip) = <<>>
       THEN xpc' = "returned" /\ xret' = "None" /\ UNCHANGED <<xerr, xmember>>
       ELSE xpc' = "open" /\ xmember' = DbfMembers(xzip)[1] /\ UNCHANGED <<xret, xerr>>
    /\ UNCHANGED <<xvariant, xzip, xout, xrun, xdirty>>

\* _extract_dbf of v2_4, lines 83-88 and 92
ExtractStart24 ==
    /\ xpc = "call" /\ xvariant = "v2_4"
    /\ xpre' = xout
    /\ IF xout.exists
       THEN xpc' = "returned" /\ xret' = "path" /\ UNCHANGED <<xerr, xmember>>
       ELSE IF ~xzip.valid
       THEN xpc' = "raised" /\ xerr' = "BadZipFile" /\ UNCHANGED <<xret, xmember>>
       ELSE IF DbfMembers(xzip) = <<>>
       THEN xpc' = "returned" /\ xret' = "None" /\ UNCHANGED <<xerr, xmember>>
       ELSE xpc' = "open" /\ xmember' = DbfMembers(xzip)[1] /\ UNCHANGED <<xret, xerr>>
    /\ UNCHANGED <<xvariant, xzip, xout, xrun, xdirty>>

\* "with z.open(member) as src, open(out_path, "wb") as dst:" (v2_2 line 148,
\* v2_4 line 89): z.open first, then the output file is created or truncated
OpenMember ==
    /\ xpc = "open"
    /\ IF GetInfo(xzip, xmember).bad = "open"
       THEN xpc' = "raised" /\ xerr' = "BadZipFile" /\ UNCHANGED <<xout, xdirty>>
       ELSE xpc' = "copy" /\ xout' = File(<<>>) /\ UNCHANGED <<xerr, xdirty>>
    /\ UNCHANGED <<xvariant, xzip, xpre, xmember, xret, xrun>>

\* "dst.write(src.read())" and the return (v2_2 lines 149-151, v2_4 lines 90-91)
CopyMember ==
    /\ xpc = "copy"
    /\ IF GetInfo(xzip, xmember).bad = "read"
       THEN /\ xpc' = "raised" /\ xerr' = "BadZipFile"
            /\ xdirty' = (xout # xpre)
            /\ UNCHANGED <<xout, xret>>
       ELSE /\ xpc' = "returned" /\ xret' = "path"
            /\ xout' = File(GetInfo(xzip, xmember).data)
            /\ xdirty' = FALSE
            /\ UNCHANGED xerr
    /\ UNCHANGED <<xvariant, xzip, xpre, xmember, xrun>>

\* the next run of main() calls _extract_dbf for the same code again
ExtractAgain ==
    /\ xpc \in {"returned", "raised"} /\ xrun < MaxRuns
    /\ xpc' = "call" /\ xrun' = xrun + 1
    /\ xret' = "" /\ xerr' = "" /\ xmember' = <<>>
    /\ UNCHANGED <<xvariant, xzip, xout, xpre, xdirty>>

InitExtract == ExtInit /\ FetchIdle /\ ClassIdle /\ DbfIdle /\ ValIdle /\ ProjIdle /\ CleanIdle /\ HdrIdle /\ ArcIdle /\ FtpIdle /\ PipeIdle
NextExtract ==
    \/ ExtractStart22 /\ UNCHANGED notExt
    \/ ExtractStart24 /\ UNCHANGED notExt
    \/ OpenMember /\ UNCHANGED notExt
    \/ CopyMember /\ UNCHANGED notExt
    \/ ExtractAgain /\ UNCHANGED notExt
SpecExtract == InitExtract /\ [][NextExtract]_vars

-----------------------------------------------------------------------------
(* Cleaning and projection: _clean_value and clean_and_filter_csv of v2_2,     *)
(* clean_and_filter_csv of v2_4                                                *)

\* s.replace('"', "")
RemoveQuotes(s) == SelectSeq(s, LAMBDA x : x # 34)
RECURSIVE Collapse(_)
\* _WS_RE.sub(" ", s), _WS_RE = re.compile(r"\s+"): every maximal run of
\* whitespace characters becomes one blank
Collapse(s) ==
    IF s = <<>> THEN <<>>
    ELSE IF s[1] \in StrWhitespace THEN <<32>> \o Collapse(LStripStr(s))
    ELSE <<s[1]>> \o Collapse(Tail(s))

\* a cell of a row read by csv.DictReader: a string, or None where the row is
\* shorter than the header
Cell(s) == [none |-> FALSE, s |-> s]
NoneCell == [none |-> TRUE, s |-> <<>>]
\* str(value)
Str(c) == IF c.none THEN <<78, 111, 110, 101>> ELSE c.s

\* a cleaner that removes the quotes last
_clean_value_quotes_last(value) ==
    IF value.none THEN <<>>
    ELSE RemoveQuotes(Collapse(StripStr(Str(value))))
\* _clean_value of v2_2, lines 243-250
_clean_value(value) ==
    IF value.none THEN <<>>
    ELSE Collapse(StripStr(RemoveQuotes(Str(value))))
\* v2_4 lines 141-142: _WS_RE.sub(" ", str(row.get(h, "")).replace('"', "").strip())
CleanInline24(value) == Collapse(StripStr(RemoveQuotes(Str(value))))

\* RELEVANT_FIELDS: data_date, data_srce, pid, name, dec_lat, dec_lon, state,
\* county, marker, setting, last_recv, last_cond, last_recby, ortho_ht
RELEVANT_FIELDS ==
    << <<100, 97, 116, 97, 95, 100, 97, 116, 101>>,
       <<100, 97, 116, 97, 95, 115, 114, 99, 101>>,
       <<112, 105, 100>>,
       <<110, 97, 109, 101>>,
       <<100, 101, 99, 95, 108, 97, 116>>,
       <<100, 101, 99, 95, 108, 111, 110>>,
       <<115, 116, 97, 116, 101>>,
       <<99, 111, 117, 110, 116, 121>>,
       <<109, 97, 114, 107, 101, 114>>,
       <<115, 101, 116, 116, 105, 110, 103>>,
       <<108, 97, 115, 116, 95, 114, 101, 99, 118>>,
       <<108, 97, 115, 116, 95, 99, 111, 110, 100>>,
       <<108, 97, 115, 116, 95, 114, 101, 99, 98, 121>>,
       <<111, 114, 116, 104, 111, 95, 104, 116>> >>

MaxCols == 3       \* bound: columns of a source CSV
MaxRows == 2       \* bound: rows of a source CSV

\* header names of the source CSVs: Dec_Lat, PID, pid, FOO, data_date
SourceNames ==
    { <<68, 101, 99, 95, 76, 97, 116>>, <<80, 73, 68>>, <<112, 105, 100>>,
      <<70, 79, 79>>, <<100, 97, 116, 97, 95, 100, 97, 116, 101>> }
DATA_DATE == RELEVANT_FIELDS[1]
\* sequences of at most n elements of S, none of them twice
RECURSIVE InjSeqs(_, _)
InjSeqs(S, n) ==
    IF n = 0 THEN {<<>>}
    ELSE InjSeqs(S, n - 1) \cup
         UNION { { Append(q, x) : x \in S \ {q[i] : i \in 1..Len(q)} } :
                   q \in {r \in InjSeqs(S, n - 1) : Len(r) = n - 1} }

\* what a row holds in its data_date column: blanks, "n/a", "2024-01-05",
\* "20230101"; a row of kind "short" lacks its last cell
RowKinds == {"blank", "na", "dash", "plain", "short"}
DateCell(kind) ==
    IF kind = "blank" THEN <<32, 32>>
    ELSE IF kind = "na" THEN <<110, 47, 97>>
    ELSE IF kind = "dash" THEN <<50, 48, 50, 52, 45, 48, 49, 45, 48, 53>>
    ELSE <<50, 48, 50, 51, 48, 49, 48, 49>>
\* the other cells of row r, column c: blank, '"', digit r, two blanks, digit c, '"', tab
PlainCell(r, c) == <<32, 34, 48 + r, 32, 32, 48 + c, 34, 9>>

\* a source CSV when it is opened: no header line at all (fieldnames is None),
\* or a header; kinds lists the rows the reader has delivered so far
NoHeaderSource == [hasHeader |-> FALSE, header |-> <<>>, kinds |-> <<>>]
Source(h) == [hasHeader |-> TRUE, header |-> h, kinds |-> <<>>]

\* row.get(h): the cell of row r under the header name h
RowGet(src, r, h) ==
    LET c == CHOOSE i \in 1..Len(src.header) : src.header[i] = h IN
    IF src.kinds[r] = "short" /\ c = Len(src.header) /\ c > 1 THEN NoneCell
    ELSE IF Lower(h) = DATA_DATE THEN Cell(DateCell(src.kinds[r]))
    ELSE Cell(PlainCell(r, c))

\* header_map = {h.lower(): h for h in fieldnames}: a later name replaces an
\* earlier one with the same lower case
InHeaderMap(header, key) == \E i \in 1..Len(header) : Lower(header[i]) = key
HeaderMapGet(header, key) ==
    header[CHOOSE i \in 1..Len(header) :
              /\ Lower(header[i]) = key
              /\ \A j \in 1..Len(header) : Lower(header[j]) = key => j <= i]
\* a projection that keeps the matching columns in the source's order
OutHeaders_SourceOrder(header, k) ==
    SelectSeq(header, LAMBDA h : \E i \in k..Len(RELEVANT_FIELDS) : Lower(h) = Lower(RELEVANT_FIELDS[i]))
\* the loop over RELEVANT_FIELDS (v2_2 lines 264-271, v2_4 line 135)
RECURSIVE OutHeaders(_, _)
OutHeaders(header, k) ==
    IF k > Len(RELEVANT_FIELDS) THEN <<>>
    ELSE (IF InHeaderMap(header, Lower(RELEVANT_FIELDS[k]))
          THEN << HeaderMapGet(header, Lower(RELEVANT_FIELDS[k])) >> ELSE <<>>)
         \o OutHeaders(header, k + 1)
Missing(header) == SelectSeq(RELEVANT_FIELDS, LAMBDA want : ~InHeaderMap(header, Lower(want)))

\* the output file: absent, or its name token (v2_4), header and rows
NoOut == [exists |-> FALSE, token |-> <<>>, header |-> <<>>, rows |-> <<>>]
Out(tok, h, rs) == [exists |-> TRUE, token |-> tok, header |-> h, rows |-> rs]
\* a processed CSV left by an earlier run
OldOut == Out(<<>>, << <<111, 108, 100>> >>, <<>>)
\* os.path.exists(output_csv) and os.path.getsize(output_csv) > 0
OutNonEmpty(o) == o.exists /\ (o.header # <<>> \/ o.rows # <<>>)

UNKNOWN == <<85, 78, 75, 78, 79, 87, 78>>
\* re.sub(r"[^0-9]", "", dd)
DigitsOnly(dd) == SelectSeq(dd, LAMBDA x : x \in 48..57)

ProjInit ==
    /\ ppc = "call" /\ pvariant \in {"v2_2", "v2_4"}
    /\ \/ psrc = NoHeaderSource
       \/ \E h \in InjSeqs(SourceNames, MaxCols) : psrc = Source(h)
    /\ pout \in (IF pvariant = "v2_2" THEN {NoOut, OldOut} ELSE {NoOut})
    /\ out_headers = <<>> /\ missing = <<>> /\ pri = 0 /\ rows = <<>>
    /\ data_date = <<>> /\ perr = ""

\* clean_and_filter_csv of v2_2, lines 254-284: the early return, the header
\* map, the two errors, and the header row of the output
OpenProject22 ==
    /\ ppc = "call" /\ pvariant = "v2_2"
    /\ IF OutNonEmpty(pout)
       THEN ppc' = "done" /\ UNCHANGED <<pout, out_headers, missing, perr>>
       ELSE IF ~psrc.hasHeader
       THEN /\ ppc' = "raised" /\ perr' = "RuntimeError: No headers found"
            /\ UNCHANGED <<pout, out_headers, missing>>
       ELSE /\ out_headers' = OutHeaders(psrc.header, 1)
            /\ missing' = Missing(psrc.header)
            /\ IF OutHeaders(psrc.header, 1) = <<>>
               THEN /\ ppc' = "raised"
                    /\ perr' = "RuntimeError: None of the configured RELEVANT_FIELDS were found"
                    /\ UNCHANGED pout
               ELSE /\ ppc' = "rows" /\ perr' = perr
                    /\ pout' = Out(<<>>, OutHeaders(psrc.header, 1), <<>>)
    /\ UNCHANGED <<pvariant, psrc, pri, rows, data_date>>

\* the row of cleaned values under the columns hs, made from row r of the source
CleanedRow22(src, r, hs) == [k \in 1..Len(hs) |-> _clean_value(RowGet(src, r, hs[k]))]
CleanedRow24(src, r, hs) == [k \in 1..Len(hs) |-> CleanInline24(RowGet(src, r, hs[k]))]

\* one turn of "for row in reader" of v2_2, lines 285-287: the reader is at
\* the end of the file, or delivers one more row
ProjectRow22 ==
    /\ ppc = "rows" /\ pvariant = "v2_2"
    /\ \/ ppc' = "done" /\ UNCHANGED <<psrc, pri, pout>>
       \/ \E kind \in RowKinds :
             LET src == [psrc EXCEPT !.kinds = Append(@, kind)] IN
             /\ pri < MaxRows
             /\ psrc' = src
             /\ pri' = pri + 1 /\ ppc' = ppc
             /\ pout' = [pout EXCEPT !.rows = Append(@, CleanedRow22(src, pri + 1, out_headers))]
    /\ UNCHANGED <<pvariant, out_headers, missing, rows, data_date, perr>>

\* clean_and_filter_csv of v2_4, lines 132-137
OpenProject24 ==
    /\ ppc = "call" /\ pvariant = "v2_4"
    /\ out_headers' = OutHeaders(psrc.header, 1)
    /\ rows' = <<>> /\ data_date' = <<>>
    /\ ppc' = "rows"
    /\ UNCHANGED <<pvariant, psrc, pout, missing, pri, perr>>

\* cleaned.get(header_map.get("data_date", ""), "")
DataDateOf(src, cleaned, hs) ==
    IF ~InHeaderMap(src.header, DATA_DATE) THEN <<>>
    ELSE cleaned[CHOOSE k \in 1..Len(hs) : hs[k] = HeaderMapGet(src.header, DATA_DATE)]

\* one turn of "for row in r" of v2_4, lines 138-147: the end of the file, or
\* one more row
ProjectRow24 ==
    /\ ppc = "rows" /\ pvariant = "v2_4"
    /\ \/ ppc' = "write" /\ UNCHANGED <<psrc, pri, rows, data_date>>
       \/ \E kind \in RowKinds :
             LET src == [psrc EXCEPT !.kinds = Append(@, kind)]
                 cleaned == CleanedRow24(src, pri + 1, out_headers)
                 dd == DataDateOf(src, cleaned, out_headers)
             IN  /\ pri < MaxRows
                 /\ psrc' = src
                 /\ pri' = pri + 1 /\ ppc' = ppc
                 /\ data_date' = IF data_date = <<>> /\ dd # <<>> THEN DigitsOnly(dd)
                                 ELSE data_date
                 /\ rows' = Append(rows, cleaned)
    /\ UNCHANGED <<pvariant, pout, out_headers, missing, perr>>

\* v2_4 lines 148-154: the fallback token, the output name, the output file
WriteOut24 ==
    /\ ppc = "write" /\ pvariant = "v2_4"
    /\ data_date' = IF data_date = <<>> THEN UNKNOWN ELSE data_date
    /\ pout' = Out(IF data_date = <<>> THEN UNKNOWN ELSE data_date, out_headers, rows)
    /\ ppc' = "done"
    /\ UNCHANGED <<pvariant, psrc, out_headers, missing, pri, rows, perr>>

InitProject == ProjInit /\ FetchIdle /\ ClassIdle /\ DbfIdle /\ ValIdle /\ ExtIdle /\ CleanIdle /\ HdrIdle /\ ArcIdle /\ FtpIdle /\ PipeIdle
NextProject ==
    \/ OpenProject22 /\ UNCHANGED notProj
    \/ ProjectRow22 /\ UNCHANGED notProj
    \/ OpenProject24 /\ UNCHANGED notProj
    \/ ProjectRow24 /\ UNCHANGED notProj
    \/ WriteOut24 /\ UNCHANGED notProj
SpecProject == InitProject /\ [][NextProject]_vars

-----------------------------------------------------------------------------
(* Value cleaning on its own: one value cleaned, and its result cleaned again *)

MaxValueLen == 4   \* bound: length of the short values given to the cleaner

\* characters of the values: tab, line feed, blank, '"', "a", no-break space
CleanChars == {9, 10, 32, 34, 97, 160}
\* blank blank '"' "12" blank blank "foo" '"' blank blank
SampleValue == <<32, 32, 34, 49, 50, 32, 32, 102, 111, 111, 34, 32, 32>>
CleanValues ==
    { Cell(s) : s \in SeqsOver(CleanChars, MaxValueLen) \cup {SampleValue} } \cup {NoneCell}

CleanInit ==
    /\ kpc = "call" /\ kvariant \in {"v2_2", "v2_4"}
    /\ kvalue \in CleanValues
    /\ kout = <<>> /\ kagain = <<>>

\* _clean_value(row.get(h, "")) of v2_2, line 286
CleanValue22 ==
    /\ kpc = "call" /\ kvariant = "v2_2"
    /\ kout' = _clean_value(kvalue)
    /\ kpc' = "returned"
    /\ UNCHANGED <<kvariant, kvalue, kagain>>

\* v2_4, lines 141-142
CleanValue24 ==
    /\ kpc = "call" /\ kvariant = "v2_4"
    /\ kout' = CleanInline24(kvalue)
    /\ kpc' = "returned"
    /\ UNCHANGED <<kvariant, kvalue, kagain>>

\* the cleaned value is cleaned once more
CleanAgain ==
    /\ kpc = "returned"
    /\ kagain' = IF kvariant = "v2_2" THEN _clean_value(Cell(kout)) ELSE CleanInline24(Cell(kout))
    /\ kpc' = "again"
    /\ UNCHANGED <<kvariant, kvalue, kout>>

InitClean == CleanInit /\ FetchIdle /\ ClassIdle /\ DbfIdle /\ ValIdle /\ ExtIdle /\ ProjIdle /\ HdrIdle /\ ArcIdle /\ FtpIdle /\ PipeIdle
NextClean ==
    \/ CleanValue22 /\ UNCHANGED notClean
    \/ CleanValue24 /\ UNCHANGED notClean
    \/ CleanAgain /\ UNCHANGED notClean
SpecClean == InitClean /\ [][NextClean]_vars

-----------------------------------------------------------------------------
(* Header parsing on its own: _parse_dbf_header_and_fields of v2_2 on a file  *)
(* whose header numbers are free, and the read of the first record after it  *)

MaxDescs == 2      \* bound: field descriptors of a header

\* header bytes 4..7: 0, 3, 0x01020304, 256, 0x7FFFFFFF
CountBytes == { <<0, 0, 0, 0>>, <<3, 0, 0, 0>>, <<4, 3, 2, 1>>, <<0, 1, 0, 0>>,
                <<255, 255, 255, 127>> }
\* header bytes 8..9: 33, 65, 97, 100, 513
HeaderLenBytes == { <<33, 0>>, <<65, 0>>, <<97, 0>>, <<100, 0>>, <<1, 2>> }
\* header bytes 10..11: 4, 256, 258
RecordLenBytes == { <<4, 0>>, <<0, 1>>, <<2, 1>> }
\* numbers of bytes that follow the 0x0D terminator byte
TailLens == {0, 4, 30, 31, 40}

\* descriptor i: a character field of length 3 named "A", "B", ...
NthDescriptor(i) == Descriptor(Field(<<64 + i>>, 67, 3, 0))
\* the bytes after the terminator: 101, 102, ...
TailBytes(n) == [i \in 1..n |-> 100 + i]
\* a file with a whole 32-byte header, nd whole descriptors, the terminator
\* byte and n more bytes
HeaderFile(cb, hb, rb, nd, n) ==
    <<3, 99, 1, 1>> \o cb \o hb \o rb \o Rep(0, 20)
    \o Flatten([i \in 1..nd |-> NthDescriptor(i)]) \o <<13>> \o TailBytes(n)

HdrInit ==
    /\ hpc = "call"
    /\ \E cb \in CountBytes, hb \in HeaderLenBytes, rb \in RecordLenBytes,
          nd \in 0..MaxDescs, n \in TailLens :
          hfile = HeaderFile(cb, hb, rb, nd, n)
    /\ hres = NoHdr /\ hrec = <<>>

\* num_records, record_len, fields = _parse_dbf_header_and_fields(f), line 219
ParseHeader22 ==
    /\ hpc = "call"
    /\ hres' = _parse_dbf_header_and_fields22(hfile)
    /\ hpc' = IF _parse_dbf_header_and_fields22(hfile).err # "" THEN "raised" ELSE "parsed"
    /\ UNCHANGED <<hfile, hrec>>

\* rec = f.read(record_len), line 227, for the first record
ReadFirstRecord22 ==
    /\ hpc = "parsed"
    /\ hrec' = FRead(hfile, hres.pos, hres.rlen)
    /\ hpc' = "read"
    /\ UNCHANGED <<hfile, hres>>

InitHeader == HdrInit /\ FetchIdle /\ ClassIdle /\ DbfIdle /\ ValIdle /\ ExtIdle /\ ProjIdle /\ CleanIdle /\ ArcIdle /\ FtpIdle /\ PipeIdle
NextHeader ==
    \/ ParseHeader22 /\ UNCHANGED notHdr
    \/ ReadFirstRecord22 /\ UNCHANGED notHdr
SpecHeader == InitHeader /\ [][NextHeader]_vars

-----------------------------------------------------------------------------
(* Archive form downloader v1_2: discover_endpoint_spec, _is_zip_response,   *)
(* download_region                                                            *)

MaxProbes == 2     \* bound: candidate request patterns probed (the source has 198)
MaxCalls  == 2     \* bound: calls of download_region for the region

\* REGIONS: "ALABAMA", "NEW YORK"
Regions == { <<65, 76, 65, 66, 65, 77, 65>>, <<78, 69, 87, 32, 89, 79, 82, 75>> }
DOT_ZIP == <<46, 122, 105, 112>>                                   \* ".zip"
DOT_PART == <<46, 112, 97, 114, 116>>                            \* ".part"
FILENAME_EQ == <<102, 105, 108, 101, 110, 97, 109, 101, 61>>       \* "filename="
BACKSLASH_DOT_ZIP == <<92, 46, 122, 105, 112>>                        \* "\.zip"

\* \w of re for ASCII text, and the characters safe_filename keeps
WordChars == (48..57) \cup (65..90) \cup (97..122) \cup {95}
KeptChars == WordChars \cup {45, 46, 32}
\* re.sub of every maximal run of characters of S by the one character x
RECURSIVE SubRuns(_, _, _)
SubRuns(s, S, x) ==
    IF s = <<>> THEN <<>>
    ELSE IF s[1] \in S
    THEN (IF Len(s) > 1 /\ s[2] \in S THEN <<>> ELSE <<x>>) \o SubRuns(Tail(s), S, x)
    ELSE <<s[1]>> \o SubRuns(Tail(s), S, x)
\* safe_filename, lines 88-90
safe_filename(name) ==
    SubRuns(StripStr(SubRuns(name, (0..255) \ KeptChars, 95)), StrWhitespace, 95)

\* the longest run of characters other than '"' at the start of s
RECURSIVE UpToQuote(_)
UpToQuote(s) == IF s = <<>> \/ s[1] = 34 THEN <<>> ELSE <<s[1]>> \o UpToQuote(Tail(s))
\* where group 1 of re.search(r'filename="?([^"]+)"?', cd, re.IGNORECASE) starts
\* when the pattern is tried at position i, or 0 when it does not match there
GroupStartAt(cd, i) ==
    IF ~StartsWith(Lower(Drop(cd, i - 1)), FILENAME_EQ) THEN 0
    ELSE LET j == i + Len(FILENAME_EQ)
             g == IF j <= Len(cd) /\ cd[j] = 34 THEN j + 1 ELSE j
         IN  IF g <= Len(cd) /\ cd[g] # 34 THEN g ELSE 0
FilenameMatches(cd) == \E i \in 1..Len(cd) : GroupStartAt(cd, i) # 0
\* m.group(1) of the first match
FilenameGroup(cd) ==
    LET i == CHOOSE k \in 1..Len(cd) :
                 GroupStartAt(cd, k) # 0 /\ \A q \in 1..(k - 1) : GroupStartAt(cd, q) = 0
    IN  UpToQuote(Drop(cd, GroupStartAt(cd, i) - 1))

\* out_path of download_region before the request (line 185) and after the
\* Content-Disposition header has been read (lines 192-198)
RegionPath(region) == safe_filename(region) \o DOT_ZIP
SuggestedPath(cd) ==
    IF EndsWith(Lower(safe_filename(FilenameGroup(cd))), DOT_ZIP)
    THEN safe_filename(FilenameGroup(cd))
    ELSE safe_filename(FilenameGroup(cd)) \o DOT_ZIP
OutPath(region, cd) == IF FilenameMatches(cd) THEN SuggestedPath(cd) ELSE RegionPath(region)

\* a probe that accepts only a body that starts with "PK"
_is_zip_response_magic_only(ctypeHeader, cd, first_chunk_) == StartsWith(first_chunk_, ZIP_MAGIC)
\* _is_zip_response, lines 93-102
_is_zip_response(ctypeHeader, cd, first_chunk_) ==
    IF Contains(Lower(ctypeHeader), ZIP_WORD) THEN TRUE
    ELSE IF /\ Contains(Lower(cd), FILENAME_EQ)
            /\ (Contains(Lower(cd), BACKSLASH_DOT_ZIP) \/ Contains(Lower(cd), ZIP_WORD))
    THEN TRUE
    ELSE IF StartsWith(first_chunk_, ZIP_MAGIC) THEN TRUE
    ELSE FALSE

\* Content-Type headers: none, "text/html", "Application/ZIP"
ContentTypes == { <<>>, <<116, 101, 120, 116, 47, 104, 116, 109, 108>>, <<65, 112, 112, 108, 105, 99, 97, 116, 105, 111, 110, 47, 90, 73, 80>> }
\* Content-Disposition headers: none, filename="al.zip", FILENAME=ALABAMA.zip,
\* filename=a b, filename="", filename="err.html"
Dispositions == { <<>>, <<102, 105, 108, 101, 110, 97, 109, 101, 61, 34, 97, 108, 46, 122, 105, 112, 34>>, <<70, 73, 76, 69, 78, 65, 77, 69, 61, 65, 76, 65, 66, 65, 77, 65, 46, 122, 105, 112>>,
                  <<102, 105, 108, 101, 110, 97, 109, 101, 61, 97, 32, 98>>, <<102, 105, 108, 101, 110, 97, 109, 101, 61, 34, 34>>,
                  <<102, 105, 108, 101, 110, 97, 109, 101, 61, 34, 101, 114, 114, 46, 104, 116, 109, 108, 34>> }
\* what the first chunk of a probe holds: nothing, an archive, an error page
FirstChunks == { <<>>, ZipHead, HtmlPage }
\* the answers to a probe: a RequestException (no connection, or a status that
\* raise_for_status refuses), or status 200 with its headers and first chunk
NoProbe == [exc |-> FALSE, ctype |-> <<>>, cd |-> <<>>, first |-> <<>>]
ProbeResponses ==
    {[exc |-> TRUE, ctype |-> <<>>, cd |-> <<>>, first |-> <<>>]}
    \cup {[exc |-> FALSE, ctype |-> ct, cd |-> cd, first |-> fc] :
            ct \in ContentTypes, cd \in Dispositions, fc \in FirstChunks}

\* the bodies of a download, as the chunks iter_content yields
RegionBodies == { <<>>, << ZipHead >>, << <<>>, HtmlPage, <<10>> >> }
\* the answers to the request of download_region: an exception of the request
\* or of raise_for_status, or status 200 with a Content-Disposition header and
\* a body whose stream breaks after failAt chunks (-1: never)
NoDownload == [exc |-> FALSE, cd |-> <<>>, chunks |-> <<>>, failAt |-> -1]
DownloadResponses ==
    {[exc |-> TRUE, cd |-> <<>>, chunks |-> <<>>, failAt |-> -1]}
    \cup UNION {{[exc |-> FALSE, cd |-> cd, chunks |-> c, failAt |-> k] :
                   cd \in Dispositions, k \in {-1} \cup {Len(c) - 1}} : c \in RegionBodies}


\* the files of OUT_DIR: afiles maps the names that exist to their content
FileExists(files, n) == n \in DOMAIN files
FileNonEmpty(files, n) == n \in DOMAIN files /\ files[n] # <<>>
WriteFile(files, n, d) == (n :> d) @@ files
\* os.replace(a, b)
ReplaceFile(files, a, b) ==
    [n \in (DOMAIN files \ {a}) \cup {b} |-> IF n = b THEN files[a] ELSE files[n]]
\* the chunks written when the stream of r ends or breaks
ChunksWritten(r) ==
    Flatten(IF r.failAt = -1 THEN r.chunks ELSE SubSeq(r.chunks, 1, r.failAt))

ArcInit ==
    /\ apc = "form" /\ api = 1 /\ aspec = 0 /\ aprobe = NoProbe
    /\ aregion \in Regions
    /\ afiles = <<>>
    /\ aresp = NoDownload /\ aout = <<>> /\ areqs = <<>> /\ aret = <<>>

\* discover_endpoint_spec, lines 133-136: the form page is fetched, or the
\* request raises
GetFormPage ==
    /\ apc = "form"
    /\ \E ok \in BOOLEAN : apc' = IF ok THEN "probe" ELSE "aborted"
    /\ UNCHANGED <<api, aspec, aprobe, aregion, afiles, aresp, aout, areqs, aret>>

\* one turn of the probe loops of discover_endpoint_spec, lines 139-164, and
\* lines 166-175 after the last candidate
Probe ==
    /\ apc = "probe"
    /\ \E r \in ProbeResponses :
         IF ~r.exc /\ _is_zip_response(r.ctype, r.cd, r.first)
         THEN /\ aspec' = api /\ aprobe' = r /\ apc' = "call"
              /\ UNCHANGED api
         ELSE /\ IF api < MaxProbes
                 THEN api' = api + 1 /\ apc' = "probe"
                 ELSE api' = api /\ apc' = "undiscovered"
              /\ UNCHANGED <<aspec, aprobe>>
    /\ UNCHANGED <<aregion, afiles, aresp, aout, areqs, aret>>

\* download_region, lines 179-203: the early return, the request, the output
\* name, open(tmp_path, "wb")
StartDownload ==
    /\ apc = "call"
    /\ Len(areqs) < MaxCalls
    /\ aprobe' = NoProbe
    /\ IF FileNonEmpty(afiles, RegionPath(aregion))
       THEN /\ aret' = Append(aret, RegionPath(aregion))
            /\ areqs' = Append(areqs, 0)
            /\ apc' = "call"
            /\ UNCHANGED <<afiles, aresp, aout>>
       ELSE \E r \in DownloadResponses :
            /\ areqs' = Append(areqs, 1)
            /\ IF r.exc
               THEN apc' = "aborted" /\ UNCHANGED <<afiles, aresp, aout, aret>>
               ELSE /\ aout' = OutPath(aregion, r.cd)
                    /\ afiles' = WriteFile(afiles, OutPath(aregion, r.cd) \o DOT_PART, <<>>)
                    /\ aresp' = r
                    /\ apc' = "stream"
                    /\ UNCHANGED aret
    /\ UNCHANGED <<api, aspec, aregion>>

\* download_region, lines 204-212: the chunks are written; os.replace and the
\* return, unless the stream breaks
FinishDownload ==
    /\ apc = "stream"
    /\ IF aresp.failAt # -1
       THEN /\ afiles' = WriteFile(afiles, aout \o DOT_PART, ChunksWritten(aresp))
            /\ apc' = "aborted"
            /\ UNCHANGED aret
       ELSE /\ afiles' = ReplaceFile(WriteFile(afiles, aout \o DOT_PART, ChunksWritten(aresp)),
                                     aout \o DOT_PART, aout)
            /\ aret' = Append(aret, aout)
            /\ apc' = "call"
    /\ aresp' = NoDownload
    /\ UNCHANGED <<api, aspec, aprobe, aregion, aout, areqs>>

InitArchive == ArcInit /\ FetchIdle /\ ClassIdle /\ DbfIdle /\ ValIdle /\ ExtIdle /\ ProjIdle /\ CleanIdle /\ HdrIdle /\ FtpIdle /\ PipeIdle
NextArchive ==
    \/ GetFormPage /\ UNCHANGED notArc
    \/ Probe /\ UNCHANGED notArc
    \/ StartDownload /\ UNCHANGED notArc
    \/ FinishDownload /\ UNCHANGED notArc
SpecArchive == InitArchive /\ [][NextArchive]_vars

-----------------------------------------------------------------------------
(* process_state_csvs_filtered.py: clean_and_filter_csv on one source CSV *)

\* clean_field, lines 32-36
clean_field(value) == IF value.none THEN <<>> ELSE StripStr(RemoveQuotes(value.s))
\* row.get(field, ""): the cell under the header equal to field, "" without one
RowGetOr(src, r, field) ==
    IF \E i \in 1..Len(src.header) : src.header[i] = field
    THEN RowGet(src, r, field) ELSE Cell(<<>>)
\* cleaned_row, lines 52-55, in the order of fieldnames=RELEVANT_FIELDS
FilteredRow(src, r) ==
    [k \in 1..Len(RELEVANT_FIELDS) |-> clean_field(RowGetOr(src, r, RELEVANT_FIELDS[k]))]

FilteredInit ==
    /\ ppc = "call" /\ pvariant = "filtered"
    /\ \/ psrc = NoHeaderSource
       \/ \E h \in InjSeqs(SourceNames, MaxCols) : psrc = Source(h)
    /\ pout \in {NoOut, OldOut}
    /\ out_headers = <<>> /\ missing = <<>> /\ pri = 0 /\ rows = <<>>
    /\ data_date = <<>> /\ perr = ""

\* lines 40-50: both files are opened and the header row is written
OpenFiltered ==
    /\ ppc = "call" /\ pvariant = "filtered"
    /\ out_headers' = RELEVANT_FIELDS
    /\ pout' = Out(<<>>, RELEVANT_FIELDS, <<>>)
    /\ ppc' = "rows"
    /\ UNCHANGED <<pvariant, psrc, missing, pri, rows, data_date, perr>>

\* one turn of "for row in reader", lines 51-56: the end of the file, or one
\* more row (a source without a header line has no rows)
FilterRow ==
    /\ ppc = "rows" /\ pvariant = "filtered"
    /\ \/ ppc' = "done" /\ UNCHANGED <<psrc, pri, pout>>
       \/ \E kind \in RowKinds :
             LET src == [psrc EXCEPT !.kinds = Append(@, kind)] IN
             /\ pri < MaxRows /\ psrc.hasHeader
             /\ psrc' = src
             /\ pri' = pri + 1 /\ ppc' = ppc
             /\ pout' = [pout EXCEPT !.rows = Append(@, FilteredRow(src, pri + 1))]
    /\ UNCHANGED <<pvariant, out_headers, missing, rows, data_date, perr>>

InitFiltered == FilteredInit /\ FetchIdle /\ ClassIdle /\ DbfIdle /\ ValIdle /\ ExtIdle /\ CleanIdle /\ HdrIdle /\ ArcIdle /\ FtpIdle /\ PipeIdle
NextFiltered ==
    \/ OpenFiltered /\ UNCHANGED notProj
    \/ FilterRow /\ UNCHANGED notProj
SpecFiltered == InitFiltered /\ [][NextFiltered]_vars

-----------------------------------------------------------------------------
(* FTP driver: main and _download_one of the FTP downloader *)

MAX_RETRIES_PER_FILE == 4

\* what _connect_ftp does when ftp is None: it connects, or raises error_perm
\* (login or cwd refused), or raises another exception (timeout, reset)
ConnectResults == {"ok", "perm", "transient"}
\* what _download_one does once tmp_path is open: RETR is refused with
\* error_perm, the transfer breaks after some bytes, or the body arrives whole
Transfers ==
    { [res |-> "perm", data |-> <<>>],
      [res |-> "transient", data |-> ZIP_MAGIC],
      [res |-> "whole", data |-> ZipFileA],
      [res |-> "whole", data |-> HtmlPage] }
\* ZIP files an earlier run may have left: none, a valid one, one that is no archive
EarlierZips == {NoFile, File(ZipFileA), File(HtmlPage)}

\* one entry of the attempt log: how the attempt ended ("ok", "perm",
\* "transient"), whether it began by connecting, whether RETR was sent
AttemptEntry(res, connected, retr) == [res |-> res, connected |-> connected, retr |-> retr]

FtpInit ==
    /\ tpc = "check" /\ tci = 1 /\ tattempt = 0 /\ tftp = FALSE
    /\ tzip \in [CodeIdx -> EarlierZips]
    /\ tpart = [c \in CodeIdx |-> NoFile]
    /\ tlast = "none" /\ tlog = <<>> /\ textr = {}

\* main, lines 199-210: the test of the local ZIP and the start of the retry loop
FtpCheck ==
    /\ tpc = "check"
    /\ tlog' = <<>> /\ tlast' = "none"
    /\ IF ExistsNonEmpty(tzip[tci]) /\ IsZipfile(tzip[tci].data)
       THEN tpc' = "extract" /\ UNCHANGED tattempt
       ELSE tpc' = "attempt" /\ tattempt' = 1
    /\ UNCHANGED <<tci, tftp, tzip, tpart, textr>>

\* the try block of lines 212-217 with _download_one, lines 128-160
FtpAttempt ==
    /\ tpc = "attempt"
    /\ \E cr \in (IF tftp THEN {"ok"} ELSE ConnectResults), tr \in Transfers :
         IF cr # "ok"
         THEN /\ tlog' = Append(tlog, AttemptEntry(cr, ~tftp, FALSE))
              /\ tpc' = cr
              /\ UNCHANGED <<tftp, tzip, tpart, tlast>>
         ELSE /\ tftp' = TRUE
              /\ IF tr.res = "whole" /\ IsZipfile(tr.data)
                 THEN /\ tzip' = [tzip EXCEPT ![tci] = File(tr.data)]      \* os.replace
                      /\ tpart' = [tpart EXCEPT ![tci] = NoFile]
                      /\ tlog' = Append(tlog, AttemptEntry("ok", ~tftp, TRUE))
                      /\ tlast' = "none"
                      /\ tpc' = "extract"                                  \* break
                 ELSE /\ tpart' = [tpart EXCEPT ![tci] = File(tr.data)]
                      /\ tlog' = Append(tlog, AttemptEntry(IF tr.res = "perm" THEN "perm"
                                                           ELSE "transient", ~tftp, TRUE))
                      /\ tpc' = IF tr.res = "perm" THEN "perm" ELSE "transient"
                      /\ UNCHANGED <<tzip, tlast>>
    /\ UNCHANGED <<tci, tattempt, textr>>

\* except error_perm, lines 219-222: the RuntimeError leaves main
FtpPermanent ==
    /\ tpc = "perm"
    /\ tlast' = "perm" /\ tpc' = "aborted"
    /\ UNCHANGED <<tci, tattempt, tftp, tzip, tpart, tlog, textr>>

\* a handler that keeps the connection for the next attempt
FtpTransient_KeepsConnection ==
    /\ tpc = "transient"
    /\ tlast' = "transient"
    /\ tpart' = [tpart EXCEPT ![tci] = NoFile]
    /\ IF tattempt < MAX_RETRIES_PER_FILE
       THEN tattempt' = tattempt + 1 /\ tpc' = "attempt"
       ELSE tattempt' = tattempt /\ tpc' = "aborted"
    /\ UNCHANGED <<tci, tftp, tzip, tlog, textr>>
\* except Exception, lines 224-240, and lines 242-243 after the last attempt
FtpTransient ==
    /\ tpc = "transient"
    /\ tlast' = "transient"
    /\ tpart' = [tpart EXCEPT ![tci] = NoFile]        \* os.remove(part) if it exists
    /\ tftp' = FALSE                                  \* ftp.quit(); ftp = None
    /\ IF tattempt < MAX_RETRIES_PER_FILE
       THEN tattempt' = tattempt + 1 /\ tpc' = "attempt"
       ELSE tattempt' = tattempt /\ tpc' = "aborted"  \* raise RuntimeError
    /\ UNCHANGED <<tci, tzip, tlog, textr>>

\* main, lines 247-257: _extract_dbfs is called, whatever it raises is printed,
\* and the loop goes to the next code
FtpExtract ==
    /\ tpc = "extract"
    /\ textr' = textr \cup {tci}
    /\ IF tci < NumCodes
       THEN tci' = tci + 1 /\ tpc' = "check"
       ELSE tci' = tci /\ tpc' = "done"
    /\ UNCHANGED <<tattempt, tftp, tzip, tpart, tlast, tlog>>

InitFtp == FtpInit /\ FetchIdle /\ ClassIdle /\ DbfIdle /\ ValIdle /\ ExtIdle /\ ProjIdle /\ CleanIdle /\ HdrIdle /\ ArcIdle /\ PipeIdle
NextFtp ==
    \/ FtpCheck /\ UNCHANGED notFtp
    \/ FtpAttempt /\ UNCHANGED notFtp
    \/ FtpPermanent /\ UNCHANGED notFtp
    \/ FtpTransient /\ UNCHANGED notFtp
    \/ FtpExtract /\ UNCHANGED notFtp
SpecFtp == InitFtp /\ [][NextFtp]_vars

-----------------------------------------------------------------------------
(* The two CSV stages of main of v2_2 for one code, lines 313-314, over runs *)
(* of the script that may be interrupted while a stage is writing            *)

\* the table files of the pipeline: character and numeric fields, no truncation
PipeTables(fs, n) == { t \in WholeTables(fs, n) : t.cut = 0 /\ t.pad = 30 /\ t.eof }

PipeInit ==
    /\ qpc = "raw" /\ qrun = 1 /\ qint = FALSE
    /\ qrows \in 0..MaxRows
    /\ dpc = "open" /\ variant = "v2_2"
    /\ \E fs \in {f \in FieldSets : ~HasValueField(f)}, n \in 0..MaxRecs :
          tbl \in PipeTables(fs, n)
    /\ dbf = FileOf(tbl)
    /\ fpos = 0 /\ hdr = NoHdr /\ reci = 0 /\ csv = NoCsv /\ derr = ""
    /\ ppc = "wait" /\ pvariant = "v2_2"
    /\ \/ psrc = NoHeaderSource
       \/ \E h \in InjSeqs(SourceNames, 1) : psrc = Source(h)
    /\ pout = NoOut
    /\ out_headers = <<>> /\ missing = <<>> /\ pri = 0 /\ rows = <<>>
    /\ data_date = <<>> /\ perr = ""

\* dbf_to_csv(dbf_path, raw_csv_path), line 313: the call and its first part
PipeOpenDbf ==
    /\ qpc = "raw" /\ OpenDbf22
    /\ qpc' = IF dpc' = "raised" THEN "raised" ELSE qpc
    /\ UNCHANGED <<qrun, qrows, qint>>
PipeReadRecord ==
    /\ qpc = "raw" /\ ReadRecord22
    /\ UNCHANGED <<qpc, qrun, qrows, qint>>

\* clean_and_filter_csv(raw_csv_path, processed_csv_path), line 314, is called
\* once dbf_to_csv has returned
PipeCallClean ==
    /\ qpc = "raw" /\ dpc = "done"
    /\ qpc' = "clean" /\ ppc' = "call"
    /\ UNCHANGED <<qrun, qrows, qint, pvariant, psrc, pout, out_headers, missing, pri,
                   rows, data_date, perr>>
PipeOpenProject ==
    /\ qpc = "clean" /\ OpenProject22
    /\ qpc' = IF ppc' = "raised" THEN "raised" ELSE IF ppc' = "done" THEN "done" ELSE qpc
    /\ UNCHANGED <<qrun, qrows, qint>>
\* the reader of the raw CSV delivers its qrows rows and then ends
PipeProjectRow ==
    /\ qpc = "clean" /\ ProjectRow22
    /\ IF ppc' = "done" THEN pri = qrows \/ ~psrc.hasHeader ELSE pri < qrows /\ psrc.hasHeader
    /\ qpc' = IF ppc' = "done" THEN "done" ELSE qpc
    /\ UNCHANGED <<qrun, qrows, qint>>

\* the script is interrupted inside one of the two "with open(..., 'w')"
\* blocks, lines 222-240 and 282-287; the file is closed with what was written
PipeInterrupt ==
    /\ \/ qpc = "raw" /\ dpc = "records"
       \/ qpc = "clean" /\ ppc = "rows"
    /\ qpc' = "interrupted" /\ qint' = TRUE
    /\ UNCHANGED <<qrun, qrows>>

\* the script is started again: main reaches line 313 for the same code
PipeNewRun ==
    /\ qpc \in {"interrupted", "done", "raised"}
    /\ qrun < MaxRuns
    /\ qrun' = qrun + 1 /\ qpc' = "raw"
    /\ dpc' = "open" /\ fpos' = 0 /\ hdr' = NoHdr /\ reci' = 0 /\ derr' = ""
    /\ ppc' = "wait" /\ psrc' = [psrc EXCEPT !.kinds = <<>>]
    /\ out_headers' = <<>> /\ missing' = <<>> /\ pri' = 0 /\ perr' = ""
    /\ UNCHANGED <<qrows, qint, variant, tbl, dbf, csv, pvariant, pout, rows, data_date>>

notPipeline == <<fetchVars, classVars, valVars, extVars, cleanVars, hdrVars, arcVars, ftpVars>>
InitPipeline == PipeInit /\ FetchIdle /\ ClassIdle /\ ValIdle /\ ExtIdle /\ CleanIdle /\ HdrIdle /\ ArcIdle /\ FtpIdle
NextPipeline ==
    \/ PipeOpenDbf /\ UNCHANGED <<projVars, notPipeline>>
    \/ PipeReadRecord /\ UNCHANGED <<projVars, notPipeline>>
    \/ PipeCallClean /\ UNCHANGED <<dbfVars, notPipeline>>
    \/ PipeOpenProject /\ UNCHANGED <<dbfVars, notPipeline>>
    \/ PipeProjectRow /\ UNCHANGED <<dbfVars, notPipeline>>
    \/ PipeInterrupt /\ UNCHANGED <<dbfVars, projVars, notPipeline>>
    \/ PipeNewRun /\ UNCHANGED notPipeline
SpecPipeline == InitPipeline /\ [][NextPipeline]_vars

-----------------------------------------------------------------------------
(* Claims about the fetch driver, checked under SpecFetch *)

NumCandidates == NumBases * NumNames
\* the k-th candidate of the nested loops "for base ... for name ..."
CandidateOrder(k) == << ((k - 1) \div NumNames) + 1, ((k - 1) % NumNames) + 1 >>
InTryDownload == pc \in {"request", "stream", "validate", "except"}

\* C1: the destination path is absent, or holds the complete body of one
\* candidate response, and that body starts with the bytes 'P' 'K'; this holds
\* in every state, also after a stream broke part-way.
C1_DestAbsentOrCompletePK ==
    \A c \in CodeIdx :
        \/ zipf[c] = NoFile
        \/ /\ zipf[c].exists
           /\ zipf[c].data = origin[c]
           /\ \E b \in Bodies : origin[c] = Flatten(b)
           /\ Len(zipf[c].data) >= 2
           /\ zipf[c].data[1] = 80 /\ zipf[c].data[2] = 75

\* a stream that broke after PK bytes had reached the .part file, the
\* destination of that code still absent, another code's destination committed
C1_Witness ==
    /\ pc = "except" /\ exc.kind = "stream"
    /\ Len(partf[ci].data) >= 2 /\ partf[ci].data[1] = 80
    /\ zipf[ci] = NoFile
    /\ \E c \in CodeIdx : zipf[c].exists

\* C2: the requests of one _try_download call are the candidates in list order
\* (bases outer, filename variants inner), and the call returns the candidate
\* that succeeded, which is the last one requested.
C2_InOrderFirstSuccess ==
    \A c \in CodeIdx :
        LET r == calls[c] IN
        /\ Len(r.reqs) <= NumCandidates
        /\ \A k \in 1..Len(r.reqs) : r.reqs[k] = CandidateOrder(k)
        /\ \A k \in 1..Len(r.oks) : r.oks[k] => (k = Len(r.reqs) /\ r.res = "returned")
        /\ r.res = "returned" =>
              /\ r.ret = r.reqs[Len(r.reqs)]
              /\ Len(r.oks) = Len(r.reqs) /\ r.oks[Len(r.oks)]

\* the third candidate succeeded after two failures and the run went on to its end
C2_Witness ==
    /\ pc = "done"
    /\ calls[1].res = "returned" /\ calls[1].ret = <<2, 1>> /\ Len(calls[1].reqs) = 3

\* C3: _try_download raises exactly when every candidate has failed; a failed
\* candidate that is not the last one does not end the call.
C3_RaisesIffAllFail ==
    \A c \in CodeIdx :
        LET r == calls[c] IN
        /\ r.res = "raised" <=>
              (Len(r.oks) = NumCandidates /\ \A k \in 1..Len(r.oks) : ~r.oks[k])
        /\ r.res = "returned" => \E k \in 1..Len(r.oks) : r.oks[k]
        /\ (r.res = "none" /\ c = ci /\ InTryDownload) => Len(r.oks) < NumCandidates

\* all six candidates failed, the last one with an error page sent as HTTP 200
C3_Witness ==
    \E c \in CodeIdx : calls[c].res = "raised" /\ calls[c].err.last.kind = "html"

\* the sources named by the error _try_download raises: its message holds the
\* code and str(last_error), which names the URL of the last candidate at most
SourcesNamed(err) == IF err.last.url = <<0, 0>> THEN {} ELSE {err.last.url}

\* C4: the failure raised on exhaustion carries the classification of the last
\* candidate and the full list of the sources that were attempted.
C4_ErrorCarriesAllSources ==
    \A c \in CodeIdx :
        calls[c].res = "raised" =>
            /\ calls[c].err.last.kind = calls[c].fail.kind
            /\ SourcesNamed(calls[c].err) =
                   {calls[c].reqs[k] : k \in 1..Len(calls[c].reqs)}

C6_ExistingFileNoRequest ==
    [][\A c \in CodeIdx :
          ExistsNonEmpty(zipf[c]) =>
              /\ zipf'[c] = zipf[c]
              /\ Len(calls'[c].reqs) <= Len(calls[c].reqs)]_vars

\* a second run that found every archive in place and made no request
C6_Witness ==
    /\ run = 2 /\ pc = "done"
    /\ \A c \in CodeIdx : calls[c].res = "skipped" /\ calls[c].reqs = <<>>

-----------------------------------------------------------------------------
(* Claims about the content checks, checked under SpecClassify *)

StartsPK(b) == Len(b) >= 2 /\ b[1] = 80 /\ b[2] = 75
Openers == {TAG_HTML, TAG_DOCTYPE, TAG_XML}
\* the buffer, without its leading whitespace and in lower case
StrippedLower(b) == Lower(LStrip(b))
\* tag occurs in h and ends within the first n bytes of h
OccursWithin(h, tag, n) ==
    \E i \in 1..Len(h) :
        /\ i + Len(tag) - 1 <= Len(h)
        /\ i + Len(tag) - 1 <= n
        /\ \A j \in 1..Len(tag) : h[i + j - 1] = tag[j]
BeginsWithOpener(b) == \E tag \in Openers : OccursWithin(StrippedLower(b), tag, Len(tag))

\* C7 as stated: a buffer is classified Valid, and accepted as an archive by
\* the v1_7 download, exactly when its first two bytes are 'P' 'K', whatever
\* the Content-Type.
C7_AcceptedIffPK ==
    /\ (cls # "" /\ buf # <<>>) => (cls = "Valid" <=> StartsPK(buf))
    /\ (outA # "" /\ status = 200 /\ buf # <<>>) => (outA = "ok" <=> StartsPK(buf))

\* C7 as amended: the magic check classifies a buffer Valid exactly when its
\* first two bytes are 'P' 'K', whatever the Content-Type; v1_7 passes that
\* check under the same condition, and accepts the download only if the file
\* also passes zipfile.is_zipfile.
C7_ValidIffPK_AcceptNeedsZipfile ==
    /\ (cls # "" /\ buf # <<>>) => (cls = "Valid" <=> StartsPK(buf))
    /\ (outA # "" /\ status = 200 /\ buf # <<>>) =>
          /\ outA \in {"ok", "badzip"} <=> StartsPK(buf)
          /\ outA = "ok" <=> (StartsPK(buf) /\ IsZipfile(buf))

\* a PK buffer served as text/html: Valid for v1_5, refused by v1_7 because
\* the file is not an archive
C7_Witness ==
    /\ cls = "Valid" /\ outA = "badzip" /\ status = 200
    /\ ctypeA = <<116, 101, 120, 116, 47, 104, 116, 109, 108>>

C9_ErrorDocIffBeginsWithOpener ==
    (cls # "" /\ buf # <<>>) =>
        /\ cls \in {"Valid", "LooksLikeErrorDocument", "Unrecognized"}
        /\ ~StartsPK(buf) => (cls = "LooksLikeErrorDocument" <=> BeginsWithOpener(buf))

\* C9 as amended: every buffer gets one of the three classes; a buffer that
\* does not start with PK is LooksLikeErrorDocument exactly when, without its
\* leading whitespace and in lower case, it begins with '<' and one of '<html',
\* '<!doctype', '<?xml' occurs within its first 300 bytes; beginning with such
\* an opener is sufficient, not necessary.
C9_ErrorDocIffMarkupWithOpener ==
    (cls # "" /\ buf # <<>>) =>
        /\ cls \in {"Valid", "LooksLikeErrorDocument", "Unrecognized"}
        /\ cls = "Valid" <=> StartsPK(buf)
        /\ ~StartsPK(buf) =>
              (cls = "LooksLikeErrorDocument" <=>
                  /\ Len(StrippedLower(buf)) >= 1 /\ StrippedLower(buf)[1] = 60
                  /\ \E tag \in Openers : OccursWithin(StrippedLower(buf), tag, HtmlWindow15))
        /\ (~StartsPK(buf) /\ BeginsWithOpener(buf)) => cls = "LooksLikeErrorDocument"

\* whitespace, then "<!DOCTYPE": classified as an error document
C9_Witness ==
    /\ cls = "LooksLikeErrorDocument"
    /\ buf = <<10, 32, 60, 33, 68, 79, 67, 84, 89, 80, 69>>

-----------------------------------------------------------------------------
(* Claims about the DBF decoder, checked under SpecDbf *)

RECURSIVE LiveRecords(_, _)
\* the numbers of the records of t that carry no deletion flag, in file order
LiveRecords(t, k) ==
    IF k > t.n THEN <<>>
    ELSE (IF k \in t.del THEN <<>> ELSE <<k>>) \o LiveRecords(t, k + 1)
\* the record number written in the first cell of a row
RowId(row) == IF row[1].t = "int" THEN row[1].n ELSE row[1].s[1] - 48
DbfEnded == dpc \in {"done", "raised"}

\* C10: for a complete table file with N records of which D are flagged
\* deleted, dbf_to_csv emits exactly the N-D other records, each once, in file
\* order.
C10_EmitsNonDeleted ==
    (DbfEnded /\ tbl.cut = 0) =>
        /\ Len(csv.rows) = tbl.n - Cardinality(tbl.del)
        /\ \A i \in 1..Len(csv.rows) : RowId(csv.rows[i]) = LiveRecords(tbl, 1)[i]

\* the number of whole records that follow the header in the file of t
CompleteRecords(t) ==
    IF (FileLen(t) - Min(t.cut, FileLen(t))) < HeaderLen(t) THEN 0
    ELSE Min(t.n, ((FileLen(t) - Min(t.cut, FileLen(t))) - HeaderLen(t)) \div RecordLen(t.fields))
\* the file holds its whole header, but fewer records than its header counts
EndsBeforeAllRecords(t) == (FileLen(t) - Min(t.cut, FileLen(t))) >= HeaderLen(t) /\ CompleteRecords(t) < t.n
\* the live records among the first m records of t
LiveUpTo(t, m) == SelectSeq(LiveRecords(t, 1), LAMBDA k : k <= m)

\* C11: in v2_2 and in v2_4, on a file that ends before all recordCount records
\* are available, no error is raised, a row is emitted for no incomplete record
\* and for no later one, and at the end the rows are those of the live records
\* among the complete ones.
C11_StopsAtShortRead ==
    EndsBeforeAllRecords(tbl) =>
        /\ derr = ""
        /\ Len(csv.rows) <= Len(LiveUpTo(tbl, CompleteRecords(tbl)))
        /\ DbfEnded =>
              /\ Len(csv.rows) = Len(LiveUpTo(tbl, CompleteRecords(tbl)))
              /\ \A i \in 1..Len(csv.rows) :
                    RowId(csv.rows[i]) = LiveUpTo(tbl, CompleteRecords(tbl))[i]

-----------------------------------------------------------------------------
(* Claims about field decoding, checked under SpecValue *)

Returned == vpc = "returned"
EmptyValue == StrV(<<>>)
\* the field's text is exactly eight digits 0-9 that name a day of the calendar
IsCalendarText(st) ==
    /\ Len(st) = 8 /\ \A i \in 1..Len(st) : st[i] \in 48..57
    /\ IsDate(DigitsValue(SubSeq(st, 1, 4), 0), DigitsValue(SubSeq(st, 5, 6), 0),
              DigitsValue(SubSeq(st, 7, 8), 0))

\* C12: a 'D' field whose text is eight digits naming a valid calendar date
\* decodes to the string YYYY-MM-DD; every other 'D' field (eight digits that
\* are no date, other characters, another length) decodes to the empty value.
C12_DateIsoOrEmpty ==
    (Returned /\ vtype = 68) =>
        IF IsCalendarText(StripStr(vraw))
        THEN vout = StrV(IsoFormat(StripStr(vraw)))
        ELSE vout = EmptyValue

\* C13: an 'L' field decodes by its first character alone: Y, y, T, t give
\* true; N, n, F, f give false; any other first character, or an empty field,
\* gives the empty value.
C13_LogicalByFirstChar ==
    (Returned /\ vtype = 76) =>
        IF vraw # <<>> /\ vraw[1] \in {89, 121, 84, 116} THEN vout = BoolV(TRUE)
        ELSE IF vraw # <<>> /\ vraw[1] \in {78, 110, 70, 102} THEN vout = BoolV(FALSE)
        ELSE vout = EmptyValue

\* "no" decoded as an 'L' field: false, by its first letter in lower case
C13_Witness ==
    Returned /\ vtype = 76 /\ vraw = <<110, 111>> /\ vout = BoolV(FALSE)

\* C14: an 'N' or 'F' field that is blank decodes to the empty value; otherwise
\* its stripped text is parsed as a float when it contains "." or the declared
\* decimal count is positive, and as an int otherwise; a text that does not
\* parse decodes to the stripped text itself.
C14_NumericFloatIntOrText ==
    (Returned /\ vtype \in {78, 70}) =>
        LET st == StripStr(vraw) IN
        IF st = <<>> THEN vout = EmptyValue
        ELSE IF (\E i \in 1..Len(st) : st[i] = 46) \/ vdec > 0
        THEN vout = (IF IsFloatLiteral(st) THEN FloatV(st) ELSE StrV(st))
        ELSE vout = (IF IsIntLiteral(st) THEN IntV(IntValue(st)) ELSE StrV(st))

\* " 1 " with two declared decimals is parsed as a float
C14_Witness ==
    Returned /\ vtype = 78 /\ vdec = 2 /\ vraw = <<32, 49, 32>> /\ vout = FloatV(<<49>>)

\* the file of t ends before the 0x0D byte that closes its descriptor block
EndsInsideHeader(t) == (FileLen(t) - Min(t.cut, FileLen(t))) < 32 + 32 * Len(t.fields) + 1

\* C15: in v2_2, once the header and the descriptors have been read, nothing in
\* the records makes dbf_to_csv raise, whatever the type codes and the bytes of
\* the fields; and a file shorter than 32 bytes, or one whose descriptor block
\* ends before the 0x0D terminator, makes the header parse raise with no row
\* and no CSV written.
C15_FieldsNeverRaise_HeaderFatal ==
    variant = "v2_2" =>
        /\ hdr.err = "" => (derr = "" /\ dpc # "raised")
        /\ (dpc # "open" /\ EndsInsideHeader(tbl)) =>
              /\ dpc = "raised" /\ derr # ""
              /\ ~csv.exists /\ csv.rows = <<>>
        /\ (dpc # "open" /\ Len(dbf) < 32) => derr = "ValueError: File too short to be a DBF."

\* three records whose 'D' field holds 00000000 were decoded without an error
C15_Witness ==
    /\ variant = "v2_2" /\ dpc = "done" /\ derr = ""
    /\ tbl.fields[Len(tbl.fields)].type = 68 /\ tbl.fill = Rep(48, 8)
    /\ Len(csv.rows) = 3

-----------------------------------------------------------------------------
(* Claims about member extraction, checked under SpecExtract *)

ExtractEnded == xpc \in {"returned", "raised"}
IsDbfName(nm) == EndsWith(Lower(nm), DOT_DBF)
HasDbfEntry(z) == \E i \in 1..Len(z.entries) : IsDbfName(z.entries[i].name)
\* the first entry, in listing order, whose lowercased name ends in ".dbf"
FirstDbfEntry(z) ==
    z.entries[CHOOSE i \in 1..Len(z.entries) :
                 /\ IsDbfName(z.entries[i].name)
                 /\ \A j \in 1..(i - 1) : ~IsDbfName(z.entries[j].name)]
AllReadable(z) == z.valid /\ \A i \in 1..Len(z.entries) : z.entries[i].bad = "ok"

\* C16: _extract_dbf of v2_2, called with no extracted file in place on an
\* archive that can be read, returns None exactly when no entry's lowercased
\* name ends in ".dbf"; otherwise it returns the path and the output file holds
\* the bytes of the first such entry in listing order, however many there are.
C16_FirstMatchExtracted ==
    (xvariant = "v2_2" /\ xrun = 1 /\ ExtractEnded /\ ~xpre.exists /\ AllReadable(xzip)) =>
        /\ (xret = "None") <=> ~HasDbfEntry(xzip)
        /\ ~HasDbfEntry(xzip) => ~xout.exists
        /\ HasDbfEntry(xzip) =>
              /\ xpc = "returned" /\ xret = "path"
              /\ xout = File(FirstDbfEntry(xzip).data)

\* C17: in v2_2 and v2_4, a call of _extract_dbf that fails (archive refused, or
\* member not readable) leaves the DBF output path as it was, and no later call
\* returns a file that a failed call left there.
C17_NoPartialExtraction ==
    /\ xpc = "raised" => xout = xpre
    /\ ~(xpc = "returned" /\ xret = "path" /\ xdirty)

-----------------------------------------------------------------------------
(* Claims about cleaning and projection, checked under SpecProject *)

\* this call of clean_and_filter_csv has opened its output file
Projected == pout.exists /\ pout # OldOut /\ ppc \in {"rows", "done"}
\* the canonical fields that some source header matches but for letter case
MatchedCanonical(header) ==
    SelectSeq(RELEVANT_FIELDS, LAMBDA f : \E i \in 1..Len(header) : Lower(header[i]) = Lower(f))
IsCanonical(nm) == \E k \in 1..Len(RELEVANT_FIELDS) : RELEVANT_FIELDS[k] = nm

\* C18: the columns clean_and_filter_csv of v2_2 writes are, letter case apart,
\* exactly the canonical fields matched by a source header, in canonical
\* order; every row has exactly these columns, so an unmatched canonical field
\* is in no row and a source field outside the list is in none either.
C18_ColumnsAreMatchedCanonical ==
    (pvariant = "v2_2" /\ Projected) =>
        LET matched == MatchedCanonical(psrc.header) IN
        /\ [k \in 1..Len(pout.header) |-> Lower(pout.header[k])] = matched
        /\ \A r \in 1..Len(pout.rows) : Len(pout.rows[r]) = Len(pout.header)
        /\ \A r \in 1..Len(pout.rows) : \A k \in 1..Len(pout.header) :
              \E c \in 1..Len(psrc.header) :
                 /\ Lower(psrc.header[c]) = matched[k]
                 /\ pout.rows[r][k] = _clean_value(RowGet(psrc, r, psrc.header[c]))

\* source header FOO, PID, data_date with two rows: columns data_date, PID
C18_Witness ==
    /\ pvariant = "v2_2" /\ ppc = "done"
    /\ psrc.header = << <<70, 79, 79>>, <<80, 73, 68>>, DATA_DATE >>
    /\ pout.header = << DATA_DATE, <<80, 73, 68>> >>
    /\ Len(pout.rows) = 2

\* C19: in v2_2 and v2_4, every column of the projected output carries the
\* canonical name of its field, also where the source header matches it only
\* case-insensitively.
C19_ColumnsUnderCanonicalName ==
    (pout.exists /\ pout # OldOut) =>
        \A k \in 1..Len(pout.header) : IsCanonical(pout.header[k])

-----------------------------------------------------------------------------
(* Claims about value cleaning, checked under SpecClean *)

\* remove the quotes, then collapse the whitespace runs, then trim
QuotesCollapseTrim(s) == StripStr(Collapse(RemoveQuotes(s)))

\* C20: for every input string the cleaned value holds no '"', no two
\* whitespace characters in a row and no whitespace at either end; it is what
\* removing the quotes, collapsing the whitespace runs and trimming, in that
\* order, gives; and cleaning it again leaves it as it is.
C20_CleanValueNormalForm ==
    (kpc \in {"returned", "again"} /\ ~kvalue.none) =>
        /\ \A i \in 1..Len(kout) : kout[i] # 34
        /\ \A i \in 1..(Len(kout) - 1) : ~(kout[i] \in StrWhitespace /\ kout[i + 1] \in StrWhitespace)
        /\ kout # <<>> => (kout[1] \notin StrWhitespace /\ kout[Len(kout)] \notin StrWhitespace)
        /\ kout = QuotesCollapseTrim(kvalue.s)
        /\ kpc = "again" => kagain = kout

\* the sample value cleaned to "12 foo", and cleaned again
C20_Witness ==
    /\ kpc = "again" /\ kvalue = Cell(SampleValue)
    /\ kout = <<49, 50, 32, 102, 111, 111>> /\ kagain = kout

-----------------------------------------------------------------------------
(* Claims about the version token of v2_4, checked under SpecProject *)

\* the cleaned data_date value of row r of the rows collected
DateValue(r) == DataDateOf(psrc, rows[r], out_headers)
\* the rows whose cleaned data_date value is non-empty
DatedRows == {r \in 1..Len(rows) : DateValue(r) # <<>>}
FirstDatedRow == CHOOSE r \in DatedRows : \A q \in DatedRows : r <= q

\* C21: the token of v2_4 is the digits of the first non-empty cleaned
\* data_date value in row order, whatever the later rows hold, and it is
\* UNKNOWN exactly when no row has a non-empty data_date value.
C21_TokenFromFirstDatedRow ==
    (pvariant = "v2_4" /\ ppc = "done") =>
        /\ DatedRows # {} => pout.token = DigitsOnly(DateValue(FirstDatedRow))
        /\ pout.token = UNKNOWN <=> DatedRows = {}

\* the same statement for first values that hold a digit
C21_HoldsWhenFirstValueHasDigit ==
    (pvariant = "v2_4" /\ ppc = "done"
        /\ (DatedRows # {} => DigitsOnly(DateValue(FirstDatedRow)) # <<>>)) =>
        /\ DatedRows # {} => pout.token = DigitsOnly(DateValue(FirstDatedRow))
        /\ pout.token = UNKNOWN <=> DatedRows = {}

-----------------------------------------------------------------------------
(* Claims about the run of main of v1_5, checked under SpecFetch *)

\* C22: a failure for one code (every candidate URL failed, a corrupt archive,
\* an archive without a DBF member) does not abort the run: main goes on to
\* every remaining code of STATE_CODES, so a run never ends before the last one.
C22_FailureDoesNotAbortRun ==
    pc = "aborted" => ci = NumCodes

\* a corrupt archive or an archive without a DBF member never ends the run:
\* after the extraction step main is at the next code, or done after the last
C22_ExtractFailureGoesOn ==
    [][pc = "extract" =>
          \/ pc' = "main_check" /\ ci' = ci + 1
          \/ pc' = "done" /\ ci = NumCodes]_vars

-----------------------------------------------------------------------------
(* Claims about the record layout and the header of v2_2, checked under SpecDbf *)

\* the bytes of record number r in the file, as the table lays them out
RecordInFile(r) ==
    SubSeq(dbf, HeaderLen(tbl) + (r - 1) * RecordLen(tbl.fields) + 1,
                HeaderLen(tbl) + r * RecordLen(tbl.fields))
\* bytes [a, b) of a record, counted from 0
RecordBytesFromTo(rec, a, b) == SubSeq(rec, a + 1, b)
\* the header was parsed and rows are being, or have been, emitted
Emitting22 == variant = "v2_2" /\ dpc \in {"records", "done"} /\ hdr.err = ""

\* C23: in dbf_to_csv of v2_2 the k-th value of every emitted record is decoded
\* from the record bytes [1 + lengths of the fields before k, 1 + lengths of the
\* fields up to k): the deletion flag at byte 0 belongs to no field, and the
\* slices follow one another without overlap or gap.
C23_FieldSlicesFromByteOne ==
    Emitting22 =>
        /\ Len(csv.rows) = Len(LiveUpTo(tbl, reci))
        /\ \A i \in 1..Len(csv.rows) : \A k \in 1..Len(tbl.fields) :
              csv.rows[i][k] =
                  _parse_dbf_value(
                      RecordBytesFromTo(RecordInFile(LiveUpTo(tbl, reci)[i]),
                                        1 + SumLen(tbl.fields, k),
                                        1 + SumLen(tbl.fields, k + 1)),
                      tbl.fields[k].type, tbl.fields[k].dec)

\* a table of two fields, a deleted record before two emitted ones
C23_Witness ==
    /\ Emitting22 /\ dpc = "done" /\ Len(tbl.fields) = 2
    /\ tbl.del = {1} /\ Len(csv.rows) = 2
    /\ csv.rows[2][1] = StrV(<<51>>) /\ csv.rows[2][2] = IntV(3)

-----------------------------------------------------------------------------
(* Claims about the header parse of v2_2, checked under SpecHeader *)

HeaderParsed == hpc \in {"parsed", "read"}
\* the numbers of the header, from its bytes b0 b1 ... (hfile[i + 1] is byte i)
HeaderLengthOf(file) == file[9] + 256 * file[10]
RecordLengthOf(file) == file[11] + 256 * file[12]
RecordCountOf(file) == file[5] + 256 * file[6] + 65536 * file[7] + 16777216 * file[8]

\* C24: the header parse returns recordCount as the unsigned little-endian
\* value of bytes 4..7 and recordLength as that of bytes 10..11, and leaves the
\* file position at headerLength (bytes 8..9) whatever the number of
\* descriptors and the padding, so the first record is read from there.
C24_HeaderNumbersAndPosition ==
    HeaderParsed =>
        /\ hres.nrec = RecordCountOf(hfile)
        /\ hres.rlen = RecordLengthOf(hfile)
        /\ hres.pos = HeaderLengthOf(hfile)
        /\ hpc = "read" =>
              hrec = SubSeq(hfile, HeaderLengthOf(hfile) + 1,
                            Min(HeaderLengthOf(hfile) + RecordLengthOf(hfile), Len(hfile)))

\* count 0x01020304; one descriptor and 32 bytes of padding skipped: the first
\* record is the four bytes at offset 97
C24_Witness ==
    /\ hpc = "read" /\ hres.nrec = 16909060 /\ hres.rlen = 4 /\ hres.pos = 97
    /\ Len(hres.fields) = 1 /\ hrec = <<133, 134, 135, 136>>

\* C25: the header parse of v2_2 succeeds on every file that holds a whole
\* 32-byte header, whole 32-byte descriptors and the 0x0D terminator byte,
\* also when fewer than 31 bytes follow the terminator; it never reports such
\* a file as truncated.
C25_TerminatorAlwaysFound ==
    hpc # "call" => (hpc # "raised" /\ hres.err = "")

\* the same statement for the files in which 31 bytes or more follow the terminator
C25_HoldsWhenThirtyOneFollow ==
    (hpc # "call" /\ \E i \in 1..(Len(hfile) - 31) : i > 32 /\ i % 32 = 1 /\ hfile[i] = 13) =>
        (hpc # "raised" /\ hres.err = "")

-----------------------------------------------------------------------------
(* Claims about the archive form downloader v1_2, checked under SpecArchive *)

\* C26: download_region is idempotent for every server response: once a call
\* for the region has returned, a later call for the same region makes no
\* network request and returns the same existing file, also when the response
\* named a file other than the region's in its Content-Disposition header.
C26_SecondCallNoRequest ==
    /\ \A c \in 2..Len(areqs) : areqs[c] = 0
    /\ \A c \in 2..Len(aret) : aret[c] = aret[1] /\ FileNonEmpty(afiles, aret[c])

\* the same statement for calls made when the last call has left a non-empty
\* file under the region's own name
C26_HoldsUnderRegionName ==
    [][(/\ apc = "call" /\ Len(aret) >= 1
        /\ aret[Len(aret)] = RegionPath(aregion)
        /\ FileNonEmpty(afiles, RegionPath(aregion))) =>
          /\ areqs' = Append(areqs, 0)
          /\ aret' = Append(aret, aret[Len(aret)])
          /\ afiles' = afiles]_vars

\* C27: a probe of discover_endpoint_spec counts as a ZIP only if its first
\* chunk starts with "PK": a status-200 answer whose body is an error page is
\* never accepted on its Content-Type or Content-Disposition header.
C27_ProbeAcceptedOnlyOnMagic ==
    aspec # 0 /\ Len(areqs) = 0 => StartsWith(aprobe.first, ZIP_MAGIC)

\* the same statement for answers whose two headers do not hold "zip"
C27_HoldsWithoutZipInHeaders ==
    (aspec # 0 /\ Len(areqs) = 0
        /\ ~Contains(Lower(aprobe.ctype), ZIP_WORD) /\ ~Contains(Lower(aprobe.cd), ZIP_WORD)) =>
        StartsWith(aprobe.first, ZIP_MAGIC)

-----------------------------------------------------------------------------
(* Claims about process_state_csvs_filtered.py, checked under SpecFiltered *)

FilteredOpened == pvariant = "filtered" /\ ppc \in {"rows", "done"}
\* the position of the column named nm in the output header, 0 without one
OutColumn(nm) ==
    IF \E k \in 1..Len(pout.header) : pout.header[k] = nm
    THEN CHOOSE k \in 1..Len(pout.header) : pout.header[k] = nm ELSE 0

\* C28: clean_and_filter_csv of process_state_csvs_filtered matches the
\* canonical fields to the source headers case-insensitively, so that a source
\* column Dec_Lat supplies the values of dec_lat, and it leaves out of the
\* output every canonical field that the source lacks instead of writing an
\* empty column for it.
C28_CaseInsensitiveAndOmitsAbsent ==
    FilteredOpened =>
        /\ \A k \in 1..Len(pout.header) : InHeaderMap(psrc.header, Lower(pout.header[k]))
        /\ \A c \in 1..Len(psrc.header) : \A f \in 1..Len(RELEVANT_FIELDS) :
              (Lower(psrc.header[c]) = RELEVANT_FIELDS[f]
                 /\ \A d \in 1..Len(psrc.header) :
                       Lower(psrc.header[d]) = RELEVANT_FIELDS[f] => d = c) =>
                 /\ OutColumn(RELEVANT_FIELDS[f]) # 0
                 /\ \A r \in 1..Len(pout.rows) :
                       pout.rows[r][OutColumn(RELEVANT_FIELDS[f])]
                           = clean_field(RowGet(psrc, r, psrc.header[c]))

\* what the function does: all fourteen canonical columns in every output, and
\* in each the cleaned cell of the source column of exactly that name, or ""
C28_AllColumnsExactNames ==
    FilteredOpened =>
        /\ pout.header = RELEVANT_FIELDS
        /\ \A r \in 1..Len(pout.rows) : \A k \in 1..Len(RELEVANT_FIELDS) :
              pout.rows[r][k] =
                  IF \E c \in 1..Len(psrc.header) : psrc.header[c] = RELEVANT_FIELDS[k]
                  THEN clean_field(RowGet(psrc, r, RELEVANT_FIELDS[k]))
                  ELSE <<>>

-----------------------------------------------------------------------------
(* Claims about the FTP driver, checked under SpecFtp *)

-----------------------------------------------------------------------------
(* Claims about the v2_2 pipeline over several runs, checked under SpecPipeline *)

\* os.path.exists(csv_path) and os.path.getsize(csv_path) > 0 for the raw CSV
RawNonEmpty == csv.exists /\ (csv.header # <<>> \/ csv.rows # <<>>)
\* the raw CSV holds the header and one row for each record without deletion flag
RawComplete ==
    /\ csv.exists
    /\ csv.header = [k \in 1..Len(tbl.fields) |-> tbl.fields[k].name]
    /\ Len(csv.rows) = Len(LiveRecords(tbl, 1))
\* the processed CSV holds one row for each row of the raw CSV
ProcessedComplete == pout.exists /\ Len(pout.rows) = qrows

\* C30: in the v2_2 pipeline a non-empty file at the output path of a stage is
\* always the whole output of that stage: after a stage was interrupted while
\* writing, the next run writes its output anew and does not take the partial
\* file for finished, so whenever a stage has returned its file is whole.
C30_NonEmptyOutputIsComplete ==
    qpc # "idle" =>
        /\ (qpc = "raw" /\ dpc = "open" /\ RawNonEmpty) => RawComplete
        /\ qpc \in {"clean", "done"} => RawComplete
        /\ (qpc = "raw" /\ dpc = "open" /\ OutNonEmpty(pout)) => ProcessedComplete
        /\ qpc = "done" => ProcessedComplete

\* the same statement for the runs before any interruption
C30_HoldsWithoutInterruption ==
    (qpc # "idle" /\ ~qint) =>
        /\ (qpc = "raw" /\ dpc = "open" /\ RawNonEmpty) => RawComplete
        /\ qpc \in {"clean", "done"} => RawComplete
        /\ (qpc = "raw" /\ dpc = "open" /\ OutNonEmpty(pout)) => ProcessedComplete
        /\ qpc = "done" => ProcessedComplete

====
